---------------------------- MODULE Spec2Model ----------------------------
(***************************************************************************)
(* Candle Dash high-score service: POST/GET /api/scores                    *)
(* (src/src/app/api/scores/route.ts, the variant without the email gate in *)
(* src/unnamed/part_000), the first-use schema sync (src/src/lib/db.ts)    *)
(* and the Score table (src/src/models/Score.ts).                          *)
(***************************************************************************)
EXTENDS Integers, Sequences, FiniteSets, TLC

(***************************************************************************)
(* Program constants (route.ts:8-12).                                      *)
(***************************************************************************)
SCORE_LIMIT == 10
MAX_NAME_LENGTH == 40
MAX_CANDLES == 29
MAX_TIME_MS == 15000
MAX_EMAIL_LENGTH == 254

(***************************************************************************)
(* Bounds of the model.                                                    *)
(***************************************************************************)
\* records that the requests of one run may add to the initial table
MaxNew == 2
\* the last millisecond, counted from the start of the process, in which a
\* run creates rows
MaxClock == 1

(***************************************************************************)
(* JavaScript values.                                                      *)
(*                                                                         *)
(* A number is NaN, +Infinity, -Infinity or a finite value i + h/2 with i  *)
(* an integer and h in {0,1}: the halves stand for the non-integers, so    *)
(* that Math.floor is not the identity.  A string is a sequence of         *)
(* one-character strings.                                                  *)
(***************************************************************************)
Fin(i, h) == [k |-> "fin", i |-> i, h |-> h]
Int_(i) == Fin(i, 0)
NaN == [k |-> "nan", i |-> 0, h |-> 0]
PosInf == [k |-> "inf", i |-> 0, h |-> 0]
NegInf == [k |-> "-inf", i |-> 0, h |-> 0]

\* Number.isFinite
isFinite(x) == x.k = "fin"

\* x < n and x > n for an integer n, as JavaScript compares them: every
\* comparison with NaN is false.
NumLess(x, n) ==
    \/ x.k = "-inf"
    \/ x.k = "fin" /\ x.i < n

NumGreater(x, n) ==
    \/ x.k = "inf"
    \/ x.k = "fin" /\ (x.i > n \/ (x.i = n /\ x.h = 1))

Min(a, b) == IF a < b THEN a ELSE b
Max(a, b) == IF a > b THEN a ELSE b

ceil(x) == x.i + x.h

\* Math.floor of a finite number
floor(x) == x.i

\* A JSON value of a request body: t is the typeof/kind, s the characters of
\* a string, n the value of a number, b the value of a boolean.
JUndefined == [t |-> "undefined", s |-> <<>>, n |-> NaN, b |-> FALSE]
JNull == [t |-> "null", s |-> <<>>, n |-> NaN, b |-> FALSE]
JObject == [t |-> "object", s |-> <<>>, n |-> NaN, b |-> FALSE]
JStr(s) == [t |-> "string", s |-> s, n |-> NaN, b |-> FALSE]
JNum(n) == [t |-> "number", s |-> <<>>, n |-> n, b |-> FALSE]
JBool(b) == [t |-> "boolean", s |-> <<>>, n |-> NaN, b |-> b]

WhiteSpace == {" ", "\t"}
Digits == <<"0", "1", "2", "3", "4", "5", "6", "7", "8", "9">>
IsDigit(c) == \E d \in 1..10 : Digits[d] = c
DigitValue(c) == (CHOOSE d \in 1..10 : Digits[d] = c) - 1

\* String.prototype.trim
RECURSIVE TrimLeft(_)
TrimLeft(s) ==
    IF s # <<>> /\ Head(s) \in WhiteSpace THEN TrimLeft(Tail(s)) ELSE s

RECURSIVE TrimRight(_)
TrimRight(s) ==
    IF s # <<>> /\ s[Len(s)] \in WhiteSpace
    THEN TrimRight(SubSeq(s, 1, Len(s) - 1))
    ELSE s

trim(s) == TrimRight(TrimLeft(s))

\* s.replace(/\s+/g, " "): every maximal run of white space becomes one space
RECURSIVE CollapseSpaces(_)
CollapseSpaces(s) ==
    IF s = <<>> THEN <<>>
    ELSE IF Head(s) \in WhiteSpace
         THEN <<" ">> \o CollapseSpaces(TrimLeft(s))
         ELSE <<Head(s)>> \o CollapseSpaces(Tail(s))

\* s.slice(0, n)
slice(s, n) == SubSeq(s, 1, IF Len(s) < n THEN Len(s) ELSE n)

UpperCase == <<"A", "B">>
LowerCase == <<"a", "b">>
LowerChar(c) ==
    IF \E u \in 1..Len(UpperCase) : UpperCase[u] = c
    THEN LowerCase[CHOOSE u \in 1..Len(UpperCase) : UpperCase[u] = c]
    ELSE c

\* String.prototype.toLowerCase
toLowerCase(s) == [p \in 1..Len(s) |-> LowerChar(s[p])]

\* The decimal value of a sequence of digits
RECURSIVE DecimalValue(_)
DecimalValue(s) ==
    IF s = <<>> THEN 0
    ELSE 10 * DecimalValue(SubSeq(s, 1, Len(s) - 1)) + DigitValue(s[Len(s)])

\* Number(value) for the kinds of value a JSON body can hold.  Of the
\* strings, the empty (or blank) string is 0, a string of decimal digits is
\* its value and the others modelled here are not numeric.
Number(v) ==
    CASE v.t = "number" -> v.n
      [] v.t = "null" -> Int_(0)
      [] v.t = "boolean" -> IF v.b THEN Int_(1) ELSE Int_(0)
      [] v.t = "string" ->
            LET s == trim(v.s) IN
            IF s = <<>> THEN Int_(0)
            ELSE IF \A p \in 1..Len(s) : IsDigit(s[p])
                 THEN Int_(DecimalValue(s))
                 ELSE NaN
      [] OTHER -> NaN

(***************************************************************************)
(* route.ts:15-23                                                          *)
(***************************************************************************)
cleanName(value) ==
    IF value.t # "string" THEN <<>>
    ELSE slice(CollapseSpaces(trim(value.s)), MAX_NAME_LENGTH)

cleanEmail(value) ==
    IF value.t # "string" THEN <<>>
    ELSE slice(toLowerCase(trim(value.s)), MAX_EMAIL_LENGTH)

\* EMAIL_REGEX.test: /^[^\s@]+@[^\s@]+\.[^\s@]+$/
NoSpaceNoAt(s, from, to) ==
    /\ from <= to
    /\ \A p \in from..to : s[p] \notin WhiteSpace /\ s[p] # "@"

EMAIL_REGEX_test(s) ==
    \E a \in 1..Len(s) : \E d \in 1..Len(s) :
        /\ s[a] = "@"
        /\ s[d] = "."
        /\ NoSpaceNoAt(s, 1, a - 1)
        /\ NoSpaceNoAt(s, a + 1, d - 1)
        /\ NoSpaceNoAt(s, d + 1, Len(s))


(***************************************************************************)
(* The scores table (models/Score.ts:4-40).  A row has no email attribute: *)
(* Score.init declares id, name, candles and timeMs, and Sequelize adds    *)
(* createdAt and updatedAt.                                                *)
(***************************************************************************)
\* Score.ts:4-35: the attributes of the model
ScoreAttributes == {"id", "name", "candles", "timeMs", "createdAt", "updatedAt"}

Row(id, name, candles, timeMs, now) ==
    [id |-> id, name |-> name, candles |-> candles, timeMs |-> timeMs,
     createdAt |-> now, updatedAt |-> now]

OrderBeforeSlowFirst(a, b) ==
    \/ a.candles > b.candles
    \/ a.candles = b.candles /\ a.timeMs > b.timeMs
    \/ a.candles = b.candles /\ a.timeMs = b.timeMs /\ a.createdAt < b.createdAt

OrderBeforeNewestFirst(a, b) ==
    \/ a.candles > b.candles
    \/ a.candles = b.candles /\ a.timeMs < b.timeMs
    \/ a.candles = b.candles /\ a.timeMs = b.timeMs /\ a.createdAt > b.createdAt

\* order: [["candles","DESC"],["timeMs","ASC"],["createdAt","ASC"]]
\* (route.ts:46-50, 118-122, 146-150): a is placed strictly before b
OrderBefore(a, b) ==
    \/ a.candles > b.candles
    \/ a.candles = b.candles /\ a.timeMs < b.timeMs
    \/ a.candles = b.candles /\ a.timeMs = b.timeMs /\ a.createdAt < b.createdAt

\* The lists of at most k rows that an ordered, limited query may return:
\* rows that tie on all three keys come in any order.
RECURSIVE OrderedLimit(_, _)
OrderedLimit(rows, k) ==
    IF k = 0 \/ rows = {} THEN {<<>>}
    ELSE UNION { { <<m>> \o rest : rest \in OrderedLimit(rows \ {m}, k - 1) } :
                 m \in { x \in rows : \A y \in rows : ~OrderBefore(y, x) } }

\* Score.findAll({ order, limit: SCORE_LIMIT })
findAll(table) ==
    OrderedLimit({ table[p] : p \in 1..Len(table) }, SCORE_LIMIT)

isTopTenCandidateAlways(candles, timeMs, scores) == TRUE

isTopTenCandidateOrEqual(candles, timeMs, scores) ==
    IF Len(scores) < SCORE_LIMIT THEN TRUE
    ELSE LET lastEntry == scores[Len(scores)] IN
         \/ candles > lastEntry.candles
         \/ candles = lastEntry.candles /\ timeMs <= lastEntry.timeMs

\* route.ts:25-32
isTopTenCandidate(candles, timeMs, scores) ==
    IF Len(scores) < SCORE_LIMIT THEN TRUE
    ELSE IF Len(scores) = 0 THEN TRUE
    ELSE LET lastEntry == scores[Len(scores)] IN
         IF candles > lastEntry.candles THEN TRUE
         ELSE IF candles = lastEntry.candles /\ timeMs < lastEntry.timeMs THEN TRUE
         ELSE FALSE

\* route.ts:34-40: the ISO string of a timestamp is modelled as the pair
\* <<"ISO", ms>>; updatedAt is not serialized.
serializeScore(entry) ==
    [id |-> entry.id, name |-> entry.name, candles |-> entry.candles,
     timeMs |-> entry.timeMs, createdAt |-> <<"ISO", entry.createdAt>>]

\* scores.map(serializeScore)
serializeAll(scores) == [p \in 1..Len(scores) |-> serializeScore(scores[p])]

(***************************************************************************)
(* POST's validation (route.ts:79-113, part_000:62-89): the message of the *)
(* failing check, "" when the check passes.                                *)
(***************************************************************************)
\* route.ts:79-84, part_000:62-67
NameError(name) ==
    IF name = <<>> THEN "Name is required." ELSE ""

CandlesErrorOffByOne(candlesValue) ==
    IF \/ ~isFinite(candlesValue)
       \/ NumLess(candlesValue, 0)
       \/ NumGreater(candlesValue, MAX_CANDLES + 1)
    THEN "Candles must be a valid number."
    ELSE ""

CandlesErrorStrict(candlesValue) ==
    IF \/ ~isFinite(candlesValue)
       \/ NumLess(candlesValue, 0)
       \/ ~NumLess(candlesValue, MAX_CANDLES)
    THEN "Candles must be a valid number."
    ELSE ""

\* route.ts:86-95, part_000:69-78
CandlesError(candlesValue) ==
    IF \/ ~isFinite(candlesValue)
       \/ NumLess(candlesValue, 0)
       \/ NumGreater(candlesValue, MAX_CANDLES)
    THEN "Candles must be a valid number."
    ELSE ""

TimeErrorNoLowerBound(timeMsValue) ==
    IF ~isFinite(timeMsValue) \/ NumGreater(timeMsValue, MAX_TIME_MS)
    THEN "Time must be a valid number."
    ELSE ""

\* route.ts:97-106, part_000:80-89
TimeError(timeMsValue) ==
    IF \/ ~isFinite(timeMsValue)
       \/ NumLess(timeMsValue, 0)
       \/ NumGreater(timeMsValue, MAX_TIME_MS)
    THEN "Time must be a valid number."
    ELSE ""

\* route.ts:108-113
EmailError(email) ==
    IF email # <<>> /\ ~EMAIL_REGEX_test(email) THEN "Email must be valid." ELSE ""

\* The checks in the order of the handler; the email check exists in the
\* email-gated handler only.
ValidationError(withEmail, name, candlesValue, timeMsValue, email) ==
    IF NameError(name) # "" THEN NameError(name)
    ELSE IF CandlesError(candlesValue) # "" THEN CandlesError(candlesValue)
    ELSE IF TimeError(timeMsValue) # "" THEN TimeError(timeMsValue)
    ELSE IF withEmail /\ EmailError(email) # "" THEN EmailError(email)
    ELSE ""


(***************************************************************************)
(* Inputs.                                                                 *)
(***************************************************************************)
Chars(c, n) == [p \in 1..n |-> c]

\* body.name
NameInputs ==
    { JUndefined, JNum(Int_(7)), JStr(<<>>), JStr(<<" ", "\t">>),
      JStr(<<"A", "l", "e", "x">>),
      JStr(<<" ", "A", "l", " ", "\t", "e", "x", " ">>),
      JStr(Chars("x", MAX_NAME_LENGTH + 2)) }

\* body.candles
CandlesInputs ==
    { JUndefined, JNull, JStr(<<"a">>), JStr(<<"1", "0">>), JNum(PosInf),
      JNum(Int_(-1)), JNum(Fin(-1, 1)), JNum(Int_(0)), JNum(Int_(10)),
      JNum(Fin(10, 1)), JNum(Int_(MAX_CANDLES)), JNum(Fin(MAX_CANDLES, 1)),
      JNum(Int_(MAX_CANDLES + 1)) }

\* body.timeMs
TimeInputs ==
    { JUndefined, JBool(TRUE), JObject, JNum(NegInf),
      JNum(Int_(-1)), JNum(Int_(0)), JNum(Int_(5000)), JNum(Fin(5000, 1)),
      JNum(Int_(MAX_TIME_MS)), JNum(Fin(MAX_TIME_MS, 1)),
      JNum(Int_(MAX_TIME_MS + 1)) }

\* body.email
EmailInputs ==
    { JUndefined, JNull, JStr(<<" ">>),
      JStr(<<" ", "A", "@", "b", ".", "c", " ">>),
      JStr(<<"a", "@", "b">>), JStr(<<"a", " ", "b", "@", "b", ".", "c">>),
      JStr(<<"a", "@", "@", "b", ".", "c">>) }

\* What request.json() yields: a syntax error, a value that is no object
\* (its fields all read as undefined) or an object with these four fields.
Payload(parse, name, candles, timeMs, email) ==
    [parse |-> parse, name |-> name, candles |-> candles, timeMs |-> timeMs,
     email |-> email]

Payloads ==
    { Payload("error", JUndefined, JUndefined, JUndefined, JUndefined),
      Payload("other", JUndefined, JUndefined, JUndefined, JUndefined) }
    \cup { Payload("object", n, c, t, e) :
             n \in NameInputs, c \in CandlesInputs, t \in TimeInputs,
             e \in EmailInputs }


\* The payloads of the concurrent runs: two malformed bodies, three that fail
\* a check, three scores without an email, and two with an email, one of them
\* with a name that is cut and numbers that are rounded down.
BaseName == JStr(<<"A", "l", "e", "x">>)
BaseCandles == JNum(Int_(10))
BaseTime == JNum(Int_(5000))
BaseEmail == JStr(<<" ", "A", "@", "b", ".", "c", " ">>)

ScoreInputs ==
    { <<BaseCandles, BaseTime>>,
      <<JNum(Int_(MAX_CANDLES)), BaseTime>>,
      <<BaseCandles, JNum(Int_(0))>> }

FewPayloads ==
    { Payload("error", JUndefined, JUndefined, JUndefined, JUndefined),
      Payload("other", JUndefined, JUndefined, JUndefined, JUndefined),
      Payload("object", BaseName, JNum(Int_(MAX_CANDLES + 1)), BaseTime, BaseEmail),
      Payload("object", BaseName, BaseCandles, JNum(Fin(MAX_TIME_MS, 1)), BaseEmail),
      Payload("object", BaseName, BaseCandles, BaseTime, JStr(<<"a", "@", "b">>)),
      Payload("object", BaseName, JNum(Int_(MAX_CANDLES)), BaseTime, BaseEmail),
      Payload("object", JStr(Chars("x", MAX_NAME_LENGTH + 2)), JNum(Fin(10, 1)),
              JNum(Fin(5000, 1)), BaseEmail) }
    \cup { Payload("object", BaseName, ct[1], ct[2], JUndefined) : ct \in ScoreInputs }

(***************************************************************************)
(* State.                                                                  *)
(***************************************************************************)
VARIABLES
    client,     \* the page of one browser: the state of Home, its timers and its fetches
    probe,      \* an evaluation of isTopTenCandidate on given arguments
    gated,      \* TRUE: route.ts (email gate) is deployed; FALSE: part_000
    table,      \* the rows of the scores table, in insertion order
    hasSynced,  \* db.ts:39
    unmailed,   \* the ids of the rows inserted by POSTs that carried no email
    req         \* the requests in progress, by slot

vars == <<client, probe, gated, table, hasSynced, unmailed, req>>

Reqs == {"r1", "r2"}

\* A slot with no request.  method: "GET" or "POST"; name, candlesValue,
\* timeMsValue, email: the handler's constants of the same names; currentTop:
\* the list read at route.ts:117; parse: how request.json() ended; size0: the number
\* of rows when the request arrived; calls: the store operations the request has issued; created: the id of the
\* row it inserted (0: none); status, error, scores: its response.
NoRequest ==
    [pc |-> "idle", method |-> "", parse |-> "", size0 |-> 0, name |-> <<>>, candlesValue |-> NaN,
     timeMsValue |-> NaN, email |-> <<>>, currentTop |-> <<>>,
     calls |-> <<>>, created |-> 0, status |-> 0, error |-> "",
     scores |-> <<>>]

\* NextResponse.json({ error }, { status })
Fail(q, status, error) ==
    [q EXCEPT !.pc = "done", !.status = status, !.error = error]

\* NextResponse.json({ scores }): status 200
Succeed(q, scores) ==
    [q EXCEPT !.pc = "done", !.status = 200, !.scores = serializeAll(scores)]

(***************************************************************************)
(* The table a process may find when it starts: rows that earlier runs of  *)
(* the same handlers inserted (createdAt before 0, the start of the clock).*)
(***************************************************************************)
SeedName == <<"B", "o">>

\* The p-th row of a table of SCORE_LIMIT rows, one row a millisecond
SeedRow(p, candles, timeMs) ==
    Row(p, SeedName, candles, timeMs, p - SCORE_LIMIT - 1)

\* An empty table, and a full top list: nine rows (29, 5000) and one (10, 5000).
Seeds ==
    { <<>>,
      [p \in 1..SCORE_LIMIT |->
          IF p < SCORE_LIMIT THEN SeedRow(p, MAX_CANDLES, 5000)
          ELSE SeedRow(p, 10, 5000)] }

NewRows == { p \in 1..Len(table) : table[p].createdAt >= 0 }

\* POSTs that have passed validation and not yet inserted or failed
Pending == { r \in Reqs : req[r].pc \in {"sync", "currentTop", "create"}
                           /\ req[r].method = "POST" }

(***************************************************************************)
(* The page (app/page.tsx; its email-gating version is the second part of  *)
(* models/Score.ts, used when gated).  client holds the state of Home: the *)
(* useState values and refs under their names, with "" for a null          *)
(* endReason and 0 for a null lastPopAt or startTimeRef, and besides them  *)
(*   now      Date.now(), in ms (advances: the steps it has made)          *)
(*   nextId   the number of candles made so far (newId gives fresh ids)    *)
(*   timers   the setTimeout calls that have not fired                     *)
(*   comboDue when the interval of the combo effect fires next (0: none)   *)
(*   spawnDue when the interval of the spawner fires next (0: none)        *)
(*   flights  the fetches that have not been answered                      *)
(*   autoPosts the automatic POSTs sent since the last startGame/resetGame *)
(* The text typed into a modal is given when it is confirmed; goldFlash,   *)
(* which only styles the page, is left out.                                *)
(***************************************************************************)
GAME_SECONDS == 15
FIELD_MAX_CANDLES == 12
SPAWN_MS == 420
CANDLE_LIFE_MS == 2600
INITIAL_CANDLES == 5
TARGET_CANDLES == 29
COMBO_MAX == 8
COMBO_IDLE_MS == 1800
COMBO_CHECK_MS == 300
BLOWN_MS == 320
BOOM_MS == 420

\* The most time steps of a run, candles made when a round starts, fetches
\* unanswered at once, and candles made when the spawner adds one
MaxAdvance == 3
MaxIds == 9
MaxFlights == 2
MaxSpawned == 13

\* useState(...) and useRef(...) of Home
NoClient ==
    [candles |-> <<>>, timeLeft |-> GAME_SECONDS, candlesPlaced |-> 0,
     elapsedMs |-> 0, combo |-> 0, status |-> "idle", endReason |-> "",
     isRunning |-> FALSE, lastPopAt |-> 0, playerName |-> <<>>,
     hasConfirmedName |-> FALSE, isNameModalOpen |-> FALSE, nameModalError |-> "",
     playerEmail |-> <<>>, hasConfirmedEmail |-> FALSE, isEmailModalOpen |-> FALSE,
     emailModalError |-> "", highScores |-> <<>>, isLoadingScores |-> TRUE,
     isSubmitting |-> FALSE, message |-> "", error |-> "", startTimeRef |-> 0,
     endGuardRef |-> FALSE, hasSubmittedRound |-> FALSE,
     autoSubmitAttempted |-> FALSE,
     now |-> 1, advances |-> 0, nextId |-> 0, timers |-> {}, comboDue |-> 0,
     spawnDue |-> 0,
     flights |-> <<>>, autoPosts |-> 0]

\* makeCandle: roll < BOMB_CHANCE gives a bomb, roll < 0.3 a golden candle
CandleKinds == {"normal", "golden", "bomb"}

makeCandle(id, kind, now) ==
    [id |-> id, isGolden |-> kind = "golden", isBomb |-> kind = "bomb",
     bornAt |-> now, state |-> "alive"]

cleanDisplayNameUncut(value) == CollapseSpaces(trim(value))

cleanDisplayName(value) == slice(CollapseSpaces(trim(value)), 40)

\* Score.ts:122-124
cleanEmailDraft(value) == toLowerCase(trim(value))
isValidEmail(value) == EMAIL_REGEX_test(value)

topScores(c) == slice(c.highScores, 10)

\* page.tsx:346-350, Score.ts:226-229
finalTimeMs(c) ==
    LET fallbackTime == Max(0, (GAME_SECONDS - c.timeLeft) * 1000)
    IN  Min(IF c.elapsedMs # 0 THEN c.elapsedMs ELSE fallbackTime, GAME_SECONDS * 1000)

qualifiesForTopTenByCandles(c) ==
    IF c.candlesPlaced <= 0 THEN FALSE
    ELSE IF Len(topScores(c)) < 10 THEN TRUE
    ELSE c.candlesPlaced > topScores(c)[Len(topScores(c))].candles

\* Score.ts:231-241
qualifiesForTopTen(c) ==
    IF c.candlesPlaced <= 0 THEN FALSE
    ELSE IF Len(topScores(c)) < 10 THEN TRUE
    ELSE LET lastEntry == topScores(c)[Len(topScores(c))] IN
         \/ c.candlesPlaced > lastEntry.candles
         \/ c.candlesPlaced = lastEntry.candles /\ finalTimeMs(c) < lastEntry.timeMs

\* Score.ts:243-248; page.tsx has no email
needsEmail(c) ==
    /\ gated
    /\ c.status = "ended"
    /\ c.hasConfirmedName
    /\ qualifiesForTopTen(c)
    /\ ~c.hasConfirmedEmail
    /\ ~c.hasSubmittedRound

\* page.tsx:423-428, Score.ts:553-559
canSubmit(c) ==
    /\ c.status = "ended"
    /\ c.candlesPlaced > 0
    /\ c.hasConfirmedName
    /\ Len(trim(c.playerName)) > 0
    /\ ~c.hasSubmittedRound
    /\ ~needsEmail(c)

NoProbe == [pc |-> "off", candles |-> 0, timeMs |-> 0, scores |-> <<>>,
            result |-> FALSE]

Init ==
    /\ client = NoClient
    /\ probe = NoProbe
    /\ gated \in BOOLEAN
    /\ table \in Seeds
    /\ hasSynced = FALSE
    /\ unmailed = {}
    /\ req = [r \in Reqs |-> NoRequest]


(***************************************************************************)
(* The handlers.  A step is what runs between two awaits; a store          *)
(* operation (sync, findAll, create) takes effect in the step that ends    *)
(* its await.                                                              *)
(***************************************************************************)
\* A response is being sent.
AnyDone == \E r \in Reqs : req[r].pc = "done"

ErrorOfSave(method) == "Unable to save score."

\* route.ts:54-59, 155-160: the responses of the two catch blocks
ErrorOf(method) ==
    IF method = "GET" THEN "Unable to load scores." ELSE "Unable to save score."

\* The handler once ensureDb has returned: GET and the refetch of POST query
\* the top list; the gated POST first reads currentTop (route.ts:117); the
\* POST of part_000 creates at once (part_000:93).
AfterEnsureDb(q) ==
    IF q.method = "GET" THEN [q EXCEPT !.pc = "findAll"]
    ELSE IF gated THEN [q EXCEPT !.pc = "currentTop"]
    ELSE [q EXCEPT !.pc = "create"]

\* db.ts:41-43: ensureDb up to its await
ensureDb(q) ==
    IF hasSynced THEN AfterEnsureDb(q)
    ELSE [q EXCEPT !.pc = "sync", !.calls = Append(@, "sync")]

\* route.ts:42-44
Get(r) ==
    /\ req[r].pc = "idle"
    /\ req' = [req EXCEPT ![r] =
                 ensureDb([NoRequest EXCEPT !.method = "GET",
                                            !.size0 = Len(table)])]
    /\ UNCHANGED <<client, probe, gated, table, hasSynced, unmailed>>

ParseFailedAsStorage(q) == Fail(q, 500, "Unable to save score.")

\* route.ts:64-68: request.json() throws
ParseFailed(q) == Fail(q, 400, "Invalid JSON.")

\* route.ts:62-116, part_000:46-92: POST up to its first store operation
PostReceived(payload, size) ==
    LET body == IF payload.parse = "object" THEN payload
                ELSE Payload("other", JUndefined, JUndefined, JUndefined, JUndefined)
        q0 == [NoRequest EXCEPT !.method = "POST", !.parse = payload.parse,
                                !.size0 = size]
        q == [q0 EXCEPT
                !.name = cleanName(body.name),
                !.candlesValue = Number(body.candles),
                !.timeMsValue = Number(body.timeMs),
                !.email = IF gated THEN cleanEmail(body.email) ELSE <<>>]
        error == ValidationError(gated, q.name, q.candlesValue, q.timeMsValue, q.email)
    IN  IF payload.parse = "error" THEN ParseFailed(q0)
        ELSE IF error # "" THEN Fail(q, 400, error)
        ELSE ensureDb(q)

Post(r, payload) ==
    /\ req[r].pc = "idle"
    /\ LET q == PostReceived(payload, Len(table)) IN
         /\ q.pc # "done" => Cardinality(NewRows) + Cardinality(Pending) < MaxNew
         /\ req' = [req EXCEPT ![r] = q]
    /\ UNCHANGED <<client, probe, gated, table, hasSynced, unmailed>>

\* db.ts:43-44: sequelize.sync resolves
SyncDone(r) ==
    /\ req[r].pc = "sync"
    /\ hasSynced' = TRUE
    /\ req' = [req EXCEPT ![r] = AfterEnsureDb(req[r])]
    /\ UNCHANGED <<client, probe, gated, table, unmailed>>

SyncFailMarked(r) ==
    /\ req[r].pc = "sync"
    /\ hasSynced' = TRUE
    /\ req' = [req EXCEPT ![r] = Fail(req[r], 500, ErrorOf(req[r].method))]
    /\ UNCHANGED <<client, probe, gated, table, unmailed>>

\* sequelize.sync rejects: ensureDb throws into the handler's catch
SyncFail(r) ==
    /\ req[r].pc = "sync"
    /\ req' = [req EXCEPT ![r] = Fail(req[r], 500, ErrorOf(req[r].method))]
    /\ UNCHANGED <<client, probe, gated, table, hasSynced, unmailed>>

AfterCurrentTopNever(q, currentTop) ==
    [q EXCEPT !.currentTop = currentTop, !.calls = Append(@, "findAll"),
              !.pc = "create"]

AfterCurrentTopAlways(q, currentTop) ==
    LET q1 == [q EXCEPT !.currentTop = currentTop, !.calls = Append(@, "findAll")]
    IN  IF q.email = <<>>
        THEN Fail(q1, 400, "Email required for top 10 scores.")
        ELSE [q1 EXCEPT !.pc = "create"]

\* route.ts:126-136: the email gate, on the list just read
AfterCurrentTop(q, currentTop) ==
    LET requiresEmail == isTopTenCandidate(floor(q.candlesValue),
                                           floor(q.timeMsValue), currentTop)
        q1 == [q EXCEPT !.currentTop = currentTop, !.calls = Append(@, "findAll")]
    IN  IF requiresEmail /\ q.email = <<>>
        THEN Fail(q1, 400, "Email required for top 10 scores.")
        ELSE [q1 EXCEPT !.pc = "create"]

\* route.ts:117-136
ReadCurrentTop(r) ==
    /\ req[r].pc = "currentTop"
    /\ \E currentTop \in findAll(table) :
         req' = [req EXCEPT ![r] = AfterCurrentTop(req[r], currentTop)]
    /\ UNCHANGED <<client, probe, gated, table, hasSynced, unmailed>>

\* The values of Score.create (route.ts:138-143, part_000:93-97); the model
\* has no email attribute, so the email given to create is not stored.
\* route.ts:138-143, part_000:93-97: the values handed to Score.create
CreateValues(q) ==
    IF gated
    THEN [name |-> q.name, candles |-> floor(q.candlesValue),
          timeMs |-> floor(q.timeMsValue),
          email |-> IF q.email # <<>> THEN JStr(q.email) ELSE JNull]
    ELSE [name |-> q.name, candles |-> floor(q.candlesValue),
          timeMs |-> floor(q.timeMsValue)]

\* Model.create: a key that is not an attribute of the model is not set;
\* id, createdAt and updatedAt are generated.
NewRow(q, id, now) ==
    LET values == CreateValues(q) IN
    [a \in ScoreAttributes |->
        IF a = "id" THEN id
        ELSE IF a \in {"createdAt", "updatedAt"} THEN now
        ELSE values[a]]

insertOverwriting(rows, row) ==
    IF Len(rows) >= SCORE_LIMIT THEN [rows EXCEPT ![SCORE_LIMIT] = row]
    ELSE Append(rows, row)

insertKeepingTen(rows, row) ==
    IF Len(rows) >= SCORE_LIMIT THEN [rows EXCEPT ![Len(rows)] = row]
    ELSE Append(rows, row)

\* INSERT INTO scores
insert(rows, row) == Append(rows, row)

\* Date.now() of the server when a row is saved, in ms since the process
\* started: not before the createdAt of any row this process has saved.  Rows
\* saved in the same millisecond have the same createdAt.
Clock(rows) ==
    LET saved == { rows[p].createdAt : p \in 1..Len(rows) } \cup {0}
    IN  CHOOSE t \in saved : \A u \in saved : u <= t

CreateSerialized(r) ==
    /\ req[r].pc = "create"
    /\ \A o \in Reqs \ {r} : req[o].created = 0
    /\ \E now \in Clock(table)..MaxClock :
         table' = insert(table, NewRow(req[r], Len(table) + 1, now))
    /\ req' = [req EXCEPT ![r] = [@ EXCEPT !.pc = "findAll",
                                           !.created = Len(table) + 1,
                                           !.calls = Append(@, "create")]]
    /\ unmailed' = IF req[r].email = <<>> THEN unmailed \cup {Len(table) + 1}
                   ELSE unmailed
    /\ UNCHANGED <<client, probe, gated, hasSynced>>

\* Score.create resolves: the row gets the time of the save as createdAt.
Create(r) ==
    /\ req[r].pc = "create"
    /\ \E now \in Clock(table)..MaxClock :
         table' = insert(table, NewRow(req[r], Len(table) + 1, now))
    /\ req' = [req EXCEPT ![r] = [@ EXCEPT !.pc = "findAll",
                                           !.created = Len(table) + 1,
                                           !.calls = Append(@, "create")]]
    /\ unmailed' = IF req[r].email = <<>> THEN unmailed \cup {Len(table) + 1}
                   ELSE unmailed
    /\ UNCHANGED <<client, probe, gated, hasSynced>>

\* route.ts:45-53, 145-154: the top list is read and returned
FindAll(r) ==
    /\ req[r].pc = "findAll"
    /\ \E scores \in findAll(table) :
         req' = [req EXCEPT ![r] =
                   Succeed([req[r] EXCEPT !.calls = Append(@, "findAll")], scores)]
    /\ UNCHANGED <<client, probe, gated, table, hasSynced, unmailed>>

\* route.ts:54-59, 155-160: a store operation throws
StoreFail(r) ==
    /\ req[r].pc \in {"currentTop", "create", "findAll"}
    /\ req' = [req EXCEPT ![r] =
                 Fail([req[r] EXCEPT !.calls =
                         Append(@, IF req[r].pc = "create" THEN "create" ELSE "findAll")],
                      500, ErrorOf(req[r].method))]
    /\ UNCHANGED <<client, probe, gated, table, hasSynced, unmailed>>

\* The response is sent and the slot is free for the next request.
Respond(r) ==
    /\ req[r].pc = "done"
    /\ req' = [req EXCEPT ![r] = NoRequest]
    /\ UNCHANGED <<client, probe, gated, table, hasSynced, unmailed>>

\* The requests of two slots, interleaved.  A handler returns in the step
\* that builds its response, so a response is sent before any other step.
Next ==
    \/ \E r \in Reqs : Respond(r)
    \/ \E r \in Reqs : ~AnyDone /\ Get(r)
    \/ \E r \in Reqs : \E payload \in FewPayloads : ~AnyDone /\ Post(r, payload)
    \/ \E r \in Reqs : ~AnyDone /\ SyncDone(r)
    \/ \E r \in Reqs : ~AnyDone /\ SyncFail(r)
    \/ \E r \in Reqs : ~AnyDone /\ ReadCurrentTop(r)
    \/ \E r \in Reqs : ~AnyDone /\ Create(r)
    \/ \E r \in Reqs : ~AnyDone /\ FindAll(r)
    \/ \E r \in Reqs : ~AnyDone /\ StoreFail(r)

Spec == Init /\ [][Next]_vars

(***************************************************************************)
(* Runs of a single request, with every payload.                           *)
(***************************************************************************)
NextOne ==
    \/ Get("r1")
    \/ \E payload \in Payloads : Post("r1", payload)
    \/ SyncDone("r1")
    \/ SyncFail("r1")
    \/ ReadCurrentTop("r1")
    \/ Create("r1")
    \/ FindAll("r1")
    \/ StoreFail("r1")

SpecOne == Init /\ [][NextOne]_vars

(***************************************************************************)
(* Round trips: a POST with any payload and, once it has answered 200, a   *)
(* GET, with no other request.  Both responses stay in view.               *)
(***************************************************************************)
Accepted == req["r1"].pc = "done" /\ req["r1"].status = 200

NextRoundTrip ==
    \/ \E payload \in Payloads : Post("r1", payload)
    \/ SyncDone("r1")
    \/ SyncFail("r1")
    \/ ReadCurrentTop("r1")
    \/ Create("r1")
    \/ FindAll("r1")
    \/ StoreFail("r1")
    \/ Accepted /\ Get("r2")
    \/ Accepted /\ FindAll("r2")
    \/ Accepted /\ StoreFail("r2")

SpecRoundTrip == Init /\ [][NextRoundTrip]_vars

(***************************************************************************)
(* isTopTenCandidate on its own: every candidate against every top list of *)
(* at most SCORE_LIMIT rows, in the order of the query, over these keys.   *)
(***************************************************************************)
ProbeKeys == <<[candles |-> 29, timeMs |-> 999], [candles |-> 29, timeMs |-> 1000],
               [candles |-> 28, timeMs |-> 999], [candles |-> 28, timeMs |-> 1000]>>

ProbeCandles == {27, 28, 29}
ProbeTimes == {998, 999, 1000, 1001}

\* The number of rows with one of the first k keys
RECURSIVE RowsUpTo(_, _)
RowsUpTo(counts, k) == IF k = 0 THEN 0 ELSE RowsUpTo(counts, k - 1) + counts[k]

\* counts[k] rows of key k, for each k in turn, created one after the other
ProbeList(counts) ==
    [p \in 1..RowsUpTo(counts, Len(ProbeKeys)) |->
        LET key == ProbeKeys[CHOOSE k \in 1..Len(ProbeKeys) :
                               RowsUpTo(counts, k - 1) < p /\ p <= RowsUpTo(counts, k)]
        IN  Row(p, SeedName, key.candles, key.timeMs, p)]

\* the list is one the ordered query can return
InQueryOrder(scores) ==
    \A p \in 1..Len(scores) : \A n \in 1..Len(scores) :
        p < n => ~OrderBefore(scores[n], scores[p])

ProbeLists ==
    { scores \in { ProbeList(counts) :
                     counts \in { c \in [1..Len(ProbeKeys) -> 0..SCORE_LIMIT] :
                                    RowsUpTo(c, Len(ProbeKeys)) <= SCORE_LIMIT } } :
        InQueryOrder(scores) }

InitProbe ==
    /\ probe \in [pc : {"ready"}, candles : ProbeCandles, timeMs : ProbeTimes,
                   scores : ProbeLists, result : {FALSE}]
    /\ client = NoClient
    /\ gated = TRUE
    /\ table = <<>>
    /\ hasSynced = FALSE
    /\ unmailed = {}
    /\ req = [r \in Reqs |-> NoRequest]

\* route.ts:126-130: the call of isTopTenCandidate
Probe ==
    /\ probe.pc = "ready"
    /\ probe' = [probe EXCEPT
                   !.pc = "done",
                   !.result = isTopTenCandidate(probe.candles, probe.timeMs,
                                                probe.scores)]
    /\ UNCHANGED <<client, gated, table, hasSynced, unmailed, req>>

SpecProbe == InitProbe /\ [][Probe]_vars


(***************************************************************************)
(* The handlers of the page.  A step is an event handler or a callback of  *)
(* a timer or a fetch, with the render it causes and the effects of that   *)
(* render.                                                                 *)
(***************************************************************************)
Timer(kind, id, due) == [kind |-> kind, id |-> id, due |-> due]

\* page.tsx:166-185, Score.ts:257-276
endGame(c, reason) ==
    IF c.endGuardRef THEN c
    ELSE [c EXCEPT
            !.endGuardRef = TRUE,
            !.isRunning = FALSE,
            !.status = "ended",
            !.endReason = reason,
            !.elapsedMs = IF c.startTimeRef # 0
                          THEN Min(c.now - c.startTimeRef, GAME_SECONDS * 1000)
                          ELSE GAME_SECONDS * 1000,
            !.timeLeft = IF reason = "time" THEN 0 ELSE @,
            !.timers = IF reason = "bomb"
                       THEN @ \cup {Timer("clear", 0, c.now + BOOM_MS)} ELSE @,
            !.candles = IF reason = "bomb" THEN @ ELSE <<>>]

\* Score.ts:322-326
openEmailModal(c) == [c EXCEPT !.isEmailModalOpen = TRUE, !.emailModalError = ""]

PostBodyWithoutEmail(c) ==
    [name |-> cleanDisplayName(c.playerName),
     candles |-> c.candlesPlaced,
     timeMs |-> finalTimeMs(c),
     email |-> <<>>]

\* The body of the POST (page.tsx:357-361, Score.ts:475-480); an email of <<>>
\* is a body without the key
PostBody(c) ==
    [name |-> cleanDisplayName(c.playerName),
     candles |-> c.candlesPlaced,
     timeMs |-> finalTimeMs(c),
     email |-> IF gated /\ c.hasConfirmedEmail THEN cleanEmailDraft(c.playerEmail)
               ELSE <<>>]

Flight(method, source, body) ==
    [method |-> method, source |-> source, body |-> body, current |-> TRUE]

\* page.tsx:340-362, Score.ts:459-481: submitScore up to its fetch
submitScore(c, source) ==
    IF ~c.hasConfirmedName \/ trim(c.playerName) = <<>> \/ c.candlesPlaced <= 0 THEN c
    ELSE IF gated /\ qualifiesForTopTen(c) /\ ~c.hasConfirmedEmail THEN openEmailModal(c)
    ELSE [c EXCEPT
            !.isSubmitting = TRUE,
            !.error = "",
            !.message = "",
            !.flights = Append(@, Flight("POST", source, PostBody(c))),
            !.autoPosts = IF source = "auto" THEN @ + 1 ELSE @]

\* page.tsx:390-400, Score.ts:518-529: the guard of the auto-submit effect
AutoSubmitDue(c) ==
    /\ c.status = "ended"
    /\ c.hasConfirmedName
    /\ c.candlesPlaced > 0
    /\ ~c.hasSubmittedRound
    /\ ~c.autoSubmitAttempted
    /\ ~c.isSubmitting
    /\ ~needsEmail(c)

\* The effects after the render of state new that follows state old: the name
\* modal (page.tsx:158-164), the email modal (Score.ts:250-255), the interval
\* of the combo (page.tsx:214-223), the interval of the spawner
\* (page.tsx:201-212) and the auto-submit (page.tsx:390-411).
Effects(old, new) ==
    LET e1 == IF /\ <<old.hasConfirmedName, old.playerName, old.status>>
                     # <<new.hasConfirmedName, new.playerName, new.status>>
                 /\ new.status = "ended" /\ ~new.hasConfirmedName
              THEN [new EXCEPT !.isNameModalOpen = TRUE, !.nameModalError = ""]
              ELSE new
        e2 == IF needsEmail(new) /\ ~new.isEmailModalOpen THEN openEmailModal(e1)
              ELSE e1
        e3 == IF <<old.isRunning, old.lastPopAt>> = <<new.isRunning, new.lastPopAt>>
              THEN e2
              ELSE [e2 EXCEPT !.comboDue = IF new.isRunning
                                           THEN new.now + COMBO_CHECK_MS ELSE 0]
        e4 == IF old.isRunning = new.isRunning THEN e3
              ELSE [e3 EXCEPT !.spawnDue = IF new.isRunning
                                           THEN new.now + SPAWN_MS ELSE 0]
    IN  IF AutoSubmitDue(new)
        THEN submitScore([e4 EXCEPT !.autoSubmitAttempted = TRUE], "auto")
        ELSE e4

\* The page goes from client to new, renders and runs its effects.
ClientStep(new) ==
    LET c == Effects(client, new) IN
    /\ Len(c.flights) <= MaxFlights
    /\ client' = c
    /\ UNCHANGED <<probe, gated, table, hasSynced, unmailed, req>>

\* page.tsx:264-281, Score.ts:383-400.  The button is in the header, which is
\* rendered while no round is running.
StartGame(kinds) ==
    /\ ~client.isRunning
    /\ client.nextId + INITIAL_CANDLES <= MaxIds
    /\ ClientStep([client EXCEPT
          !.candles = [p \in 1..INITIAL_CANDLES |->
                         makeCandle(client.nextId + p, kinds[p], client.now)],
          !.nextId = @ + INITIAL_CANDLES,
          !.candlesPlaced = 0, !.elapsedMs = 0, !.combo = 0,
          !.hasSubmittedRound = FALSE, !.autoSubmitAttempted = FALSE,
          !.timeLeft = GAME_SECONDS, !.status = "running", !.endReason = "",
          !.isRunning = TRUE, !.startTimeRef = client.now, !.endGuardRef = FALSE,
          !.lastPopAt = client.now, !.message = "", !.error = "",
          !.flights = [i \in 1..Len(client.flights) |->
                         [client.flights[i] EXCEPT !.current = FALSE]],
          !.autoPosts = 0])

ResetGameAnytime ==
    ClientStep([client EXCEPT
        !.isRunning = FALSE, !.status = "idle", !.endReason = "",
        !.candles = <<>>, !.timeLeft = GAME_SECONDS, !.candlesPlaced = 0,
        !.elapsedMs = 0, !.combo = 0, !.hasSubmittedRound = FALSE,
        !.autoSubmitAttempted = FALSE, !.startTimeRef = 0,
        !.endGuardRef = FALSE, !.message = "", !.error = "",
        !.flights = [i \in 1..Len(client.flights) |->
                       [client.flights[i] EXCEPT !.current = FALSE]],
        !.autoPosts = 0])

\* page.tsx:283-299, Score.ts:402-418
ResetGame ==
    /\ ~client.isRunning
    /\ ClientStep([client EXCEPT
          !.isRunning = FALSE, !.status = "idle", !.endReason = "",
          !.candles = <<>>, !.timeLeft = GAME_SECONDS, !.candlesPlaced = 0,
          !.elapsedMs = 0, !.combo = 0, !.hasSubmittedRound = FALSE,
          !.autoSubmitAttempted = FALSE, !.startTimeRef = 0,
          !.endGuardRef = FALSE, !.message = "", !.error = "",
          !.flights = [i \in 1..Len(client.flights) |->
                         [client.flights[i] EXCEPT !.current = FALSE]],
          !.autoPosts = 0])

PopCandleBonus(i) ==
    /\ i \in 1..Len(client.candles)
    /\ LET candle == client.candles[i]
           boom == [client EXCEPT !.candles[i].state = "boom", !.combo = 0]
           blown == [client EXCEPT
                       !.candles[i].state = "blown",
                       !.timers = @ \cup {Timer("remove", candle.id, client.now + BLOWN_MS)}]
           next == Min(client.candlesPlaced + (IF candle.isGolden THEN 2 ELSE 1),
                       TARGET_CANDLES)
           placed == [blown EXCEPT !.candlesPlaced = next]
           ended == IF next >= TARGET_CANDLES THEN endGame(placed, "candles") ELSE placed
       IN  IF ~client.isRunning \/ candle.state # "alive" THEN ClientStep(client)
           ELSE IF candle.isBomb THEN ClientStep(endGame(boom, "bomb"))
           ELSE ClientStep([ended EXCEPT !.lastPopAt = client.now,
                                         !.combo = Min(@ + 1, COMBO_MAX)])

PopCandleAlways(i) ==
    /\ i \in 1..Len(client.candles)
    /\ LET candle == client.candles[i]
           boom == [client EXCEPT !.candles[i].state = "boom", !.combo = 0]
           blown == [client EXCEPT
                       !.candles[i].state = "blown",
                       !.timers = @ \cup {Timer("remove", candle.id, client.now + BLOWN_MS)}]
           next == Min(client.candlesPlaced + 1, TARGET_CANDLES)
           placed == [blown EXCEPT !.candlesPlaced = next]
           ended == IF next >= TARGET_CANDLES THEN endGame(placed, "candles") ELSE placed
       IN  IF candle.state # "alive" THEN ClientStep(client)
           ELSE IF candle.isBomb THEN ClientStep(endGame(boom, "bomb"))
           ELSE ClientStep([ended EXCEPT !.lastPopAt = client.now,
                                         !.combo = Min(@ + 1, COMBO_MAX)])

PopCandleGolden(i) ==
    /\ i \in 1..Len(client.candles)
    /\ LET candle == client.candles[i]
           boom == [client EXCEPT !.candles[i].state = "boom", !.combo = 0]
           blown == [client EXCEPT
                       !.candles[i].state = "blown",
                       !.timers = @ \cup {Timer("remove", candle.id, client.now + BLOWN_MS)}]
           next == Min(client.candlesPlaced + 1, TARGET_CANDLES)
           placed == [blown EXCEPT !.candlesPlaced = next]
           ended == IF next >= TARGET_CANDLES THEN endGame(placed, "candles") ELSE placed
       IN  IF ~client.isRunning \/ candle.state # "alive" THEN ClientStep(client)
           ELSE IF candle.isBomb THEN ClientStep(endGame(boom, "bomb"))
           ELSE ClientStep([ended EXCEPT !.lastPopAt = client.now,
                                         !.combo = Min(@ + (IF candle.isGolden THEN 2 ELSE 1),
                                                        COMBO_MAX)])

\* page.tsx:301-338, Score.ts:420-457: a click on the i-th candle of the field
PopCandle(i) ==
    /\ i \in 1..Len(client.candles)
    /\ LET candle == client.candles[i]
           boom == [client EXCEPT !.candles[i].state = "boom", !.combo = 0]
           blown == [client EXCEPT
                       !.candles[i].state = "blown",
                       !.timers = @ \cup {Timer("remove", candle.id, client.now + BLOWN_MS)}]
           next == Min(client.candlesPlaced + 1, TARGET_CANDLES)
           placed == [blown EXCEPT !.candlesPlaced = next]
           ended == IF next >= TARGET_CANDLES THEN endGame(placed, "candles") ELSE placed
       IN  IF ~client.isRunning \/ candle.state # "alive" THEN ClientStep(client)
           ELSE IF candle.isBomb THEN ClientStep(endGame(boom, "bomb"))
           ELSE ClientStep([ended EXCEPT !.lastPopAt = client.now,
                                         !.combo = Min(@ + 1, COMBO_MAX)])

TickWithoutEnd ==
    /\ client.isRunning
    /\ ClientStep(IF client.timeLeft <= 1
                  THEN [client EXCEPT !.timeLeft = 0]
                  ELSE [client EXCEPT !.timeLeft = @ - 1])

\* page.tsx:187-199: the interval of the countdown fires
Tick ==
    /\ client.isRunning
    /\ ClientStep(IF client.timeLeft <= 1
                  THEN [endGame(client, "time") EXCEPT !.timeLeft = 0]
                  ELSE [client EXCEPT !.timeLeft = @ - 1])

SpawnTickKeepsAtLimit(kind) ==
    /\ client.isRunning
    /\ client.spawnDue # 0 /\ client.now >= client.spawnDue
    /\ LET alive == SelectSeq(client.candles,
                              LAMBDA candle : client.now - candle.bornAt <= CANDLE_LIFE_MS)
           fired == [client EXCEPT !.spawnDue = client.now + SPAWN_MS]
       IN  IF Len(alive) >= FIELD_MAX_CANDLES
           THEN ClientStep([fired EXCEPT !.candles = alive])
           ELSE /\ client.nextId < MaxSpawned
                /\ ClientStep([fired EXCEPT
                      !.candles = Append(alive, makeCandle(client.nextId + 1, kind,
                                                           client.now)),
                      !.nextId = @ + 1])

\* page.tsx:201-212: the interval of the spawner fires
SpawnTick(kind) ==
    /\ client.isRunning
    /\ client.spawnDue # 0 /\ client.now >= client.spawnDue
    /\ LET alive == SelectSeq(client.candles,
                              LAMBDA candle : client.now - candle.bornAt < CANDLE_LIFE_MS)
           fired == [client EXCEPT !.spawnDue = client.now + SPAWN_MS]
       IN  IF Len(alive) >= FIELD_MAX_CANDLES
           THEN ClientStep([fired EXCEPT !.candles = alive])
           ELSE /\ client.nextId < MaxSpawned
                /\ ClientStep([fired EXCEPT
                      !.candles = Append(alive, makeCandle(client.nextId + 1, kind,
                                                           client.now)),
                      !.nextId = @ + 1])

ComboCheckAtLimit ==
    /\ client.isRunning
    /\ client.comboDue # 0 /\ client.now >= client.comboDue
    /\ LET checked == [client EXCEPT !.comboDue = client.now + COMBO_CHECK_MS] IN
       ClientStep(IF client.lastPopAt # 0
                     /\ client.now - client.lastPopAt >= COMBO_IDLE_MS
                  THEN [checked EXCEPT !.combo = 0] ELSE checked)

\* page.tsx:214-223: the interval of the combo fires
ComboCheck ==
    /\ client.isRunning
    /\ client.comboDue # 0 /\ client.now >= client.comboDue
    /\ LET checked == [client EXCEPT !.comboDue = client.now + COMBO_CHECK_MS] IN
       ClientStep(IF client.lastPopAt # 0
                     /\ client.now - client.lastPopAt > COMBO_IDLE_MS
                  THEN [checked EXCEPT !.combo = 0] ELSE checked)

\* page.tsx:181 and 325-327: a timeout fires
TimerFire(t) ==
    /\ t \in client.timers
    /\ client.now >= t.due
    /\ ClientStep([client EXCEPT
          !.timers = @ \ {t},
          !.candles = IF t.kind = "clear" THEN <<>>
                      ELSE SelectSeq(@, LAMBDA candle : candle.id # t.id)])

\* d ms pass
Advance(d) ==
    /\ client.advances < MaxAdvance
    /\ ClientStep([client EXCEPT !.now = @ + d, !.advances = @ + 1])

\* page.tsx:225-229: "Set name" / "Change name", beside the leaderboard
OpenNameModal ==
    /\ ~client.isRunning
    /\ ClientStep([client EXCEPT !.isNameModalOpen = TRUE, !.nameModalError = ""])

\* page.tsx:241-245: Cancel, rendered in the modal once a name is confirmed
CloseNameModal ==
    /\ client.isNameModalOpen /\ client.hasConfirmedName
    /\ ClientStep([client EXCEPT !.isNameModalOpen = FALSE, !.nameModalError = ""])

\* page.tsx:247-262: "Save name" with nameDraft typed
ConfirmName(nameDraft) ==
    /\ client.isNameModalOpen
    /\ LET cleaned == cleanDisplayName(nameDraft) IN
       ClientStep(IF cleaned = <<>>
                  THEN [client EXCEPT !.nameModalError = "Please enter a name."]
                  ELSE [client EXCEPT !.playerName = cleaned,
                                      !.hasConfirmedName = TRUE,
                                      !.isNameModalOpen = FALSE,
                                      !.nameModalError = ""])

\* Score.ts:344-348
CloseEmailModal ==
    /\ gated
    /\ client.isEmailModalOpen /\ client.hasConfirmedEmail
    /\ ClientStep([client EXCEPT !.isEmailModalOpen = FALSE, !.emailModalError = ""])

\* Score.ts:367-381: "Save email" with emailDraft typed
ConfirmEmail(emailDraft) ==
    /\ gated
    /\ client.isEmailModalOpen
    /\ LET cleaned == cleanEmailDraft(emailDraft) IN
       ClientStep(IF cleaned = <<>> \/ ~isValidEmail(cleaned)
                  THEN [client EXCEPT !.emailModalError = "Please enter a valid email."]
                  ELSE [client EXCEPT !.playerEmail = cleaned,
                                      !.hasConfirmedEmail = TRUE,
                                      !.isEmailModalOpen = FALSE,
                                      !.emailModalError = ""])

SubmitManualWhileSaving ==
    /\ ~client.isRunning
    /\ canSubmit(client)
    /\ ClientStep(submitScore(client, "manual"))

SubmitManualAnytime ==
    /\ ~client.isSubmitting
    /\ ClientStep(submitScore(client, "manual"))

\* page.tsx:644-651: "Save Score", enabled by canSubmit && !isSubmitting
SubmitManual ==
    /\ ~client.isRunning
    /\ canSubmit(client) /\ ~client.isSubmitting
    /\ ClientStep(submitScore(client, "manual"))

\* What /api/scores answers: a list of scores, or an error.
Answer(ok, scores, error) == [ok |-> ok, scores |-> scores, error |-> error]

Answers ==
    { Answer(TRUE, serializeAll(rows), "") : rows \in Seeds }
    \cup { Answer(FALSE, <<>>, "Unable to save score.") }

Without(flights, i) == SubSeq(flights, 1, i - 1) \o SubSeq(flights, i + 1, Len(flights))

FetchAnsweredBanner(i, answer) ==
    /\ i \in 1..Len(client.flights)
    /\ client.flights[i].method = "GET"
    /\ ClientStep([client EXCEPT
          !.flights = Without(@, i),
          !.highScores = IF answer.ok THEN answer.scores ELSE <<>>,
          !.error = IF answer.ok THEN @ ELSE "Scores unavailable",
          !.isLoadingScores = FALSE])

\* page.tsx:116-130: the fetch of fetchScores is answered
FetchAnswered(i, answer) ==
    /\ i \in 1..Len(client.flights)
    /\ client.flights[i].method = "GET"
    /\ ClientStep([client EXCEPT
          !.flights = Without(@, i),
          !.highScores = IF answer.ok THEN answer.scores ELSE <<>>,
          !.isLoadingScores = FALSE])

\* page.tsx:363-385, Score.ts:482-504: submitScore from the answer of its
\* fetch on
submitted(c, i, answer) ==
    LET received == [c EXCEPT !.flights = Without(@, i), !.isSubmitting = FALSE] IN
    IF answer.ok
    THEN [received EXCEPT
            !.highScores = answer.scores,
            !.hasSubmittedRound = TRUE,
            !.message = IF c.flights[i].source = "auto"
                        THEN "Score saved automatically!"
                        ELSE "Score saved! The cake is officially legendary."]
    ELSE [received EXCEPT !.error = answer.error]

\* page.tsx:363-385: the fetch of submitScore is answered
PostAnswered(i, answer) ==
    /\ i \in 1..Len(client.flights)
    /\ client.flights[i].method = "POST"
    /\ ClientStep(submitted(client, i, answer))

\* localStorage when the page opens: nothing, or what confirmName and
\* confirmEmail stored on an earlier visit
Alex == <<"A", "l", "e", "x">>
Storages ==
    { [name |-> <<>>, confirmed |-> FALSE, email |-> <<>>],
      [name |-> Alex, confirmed |-> TRUE, email |-> <<>>],
      [name |-> Alex, confirmed |-> TRUE, email |-> <<"a", "@", "b", ".", "c">>] }

\* The page after its first render and effects: fetchScores is under way
\* (page.tsx:132-134) and localStorage is read (page.tsx:144-156,
\* Score.ts:194-216).
Mounted(storage) ==
    [NoClient EXCEPT
       !.playerName = storage.name,
       !.hasConfirmedName = IF gated THEN storage.name # <<>> /\ storage.confirmed
                            ELSE storage.confirmed,
       !.playerEmail = IF gated THEN storage.email ELSE <<>>,
       !.hasConfirmedEmail = gated /\ storage.email # <<>>,
       !.flights = <<Flight("GET", "", PostBody(NoClient))>>]

\* A round near its end: TARGET_CANDLES - 2 candles placed with a full combo,
\* two seconds left, four candles in the field, the leaderboard loaded.
LateRound(storage, scores) ==
    [Mounted(storage) EXCEPT
       !.flights = <<>>, !.isLoadingScores = FALSE, !.highScores = scores,
       !.status = "running", !.isRunning = TRUE, !.timeLeft = 2,
       !.candlesPlaced = TARGET_CANDLES - 2, !.combo = COMBO_MAX - 1,
       !.now = 13001, !.startTimeRef = 1, !.lastPopAt = 13001,
       !.comboDue = 13001 + COMBO_CHECK_MS, !.spawnDue = 13021, !.nextId = 4,
       !.candles = [p \in 1..4 |->
                      makeCandle(p, <<"normal", "golden", "bomb", "normal">>[p], 12001)]]

(***************************************************************************)
(* Rounds of the game on a page with no name stored: the clicks, the       *)
(* countdown and the timeouts, with time in steps of half a second.        *)
(***************************************************************************)
NoStorage == [name |-> <<>>, confirmed |-> FALSE, email |-> <<>>]

\* The kinds that the rolls of startGame give to the initial candles
InitialKinds == { <<"normal", "golden", "bomb", "normal", "normal">> }

InitRound ==
    /\ gated = FALSE
    /\ client \in { Mounted(NoStorage), LateRound(NoStorage, <<>>) }
    /\ probe = NoProbe
    /\ table = <<>>
    /\ hasSynced = FALSE
    /\ unmailed = {}
    /\ req = [r \in Reqs |-> NoRequest]

\* The candles the player clicks: the first three of the field
Clicks == 1..3

NextRound ==
    \/ \E kinds \in InitialKinds : StartGame(kinds)
    \/ ResetGame
    \/ \E i \in Clicks : PopCandle(i)
    \/ Tick
    \/ \E t \in client.timers : TimerFire(t)
    \/ Advance(500)

SpecRound == InitRound /\ [][NextRound]_vars

(***************************************************************************)
(* The combo of a round, with time in steps of COMBO_CHECK_MS and of       *)
(* COMBO_IDLE_MS - COMBO_CHECK_MS.                                         *)
(***************************************************************************)
NextCombo ==
    \/ \E kinds \in InitialKinds : StartGame(kinds)
    \/ \E i \in Clicks : PopCandle(i)
    \/ ComboCheck
    \/ \E d \in {COMBO_CHECK_MS, COMBO_IDLE_MS - COMBO_CHECK_MS} : Advance(d)

SpecCombo == InitRound /\ [][NextCombo]_vars

(***************************************************************************)
(* The spawner of a round, from the start of a round and from a round that *)
(* is 2100 ms old, with time in steps of SPAWN_MS and of the two steps     *)
(* that bring the first candles of that round to the ages 2599 and 2600.   *)
(* The player clicks the first candle of the field.                        *)
(***************************************************************************)
\* A round started at 1 whose spawner has fired five times, every SPAWN_MS,
\* with no click: the five candles of startGame and five more.
SpawnedKinds == <<"normal", "golden", "normal", "bomb", "normal">>

SpawnedRound ==
    [Mounted(NoStorage) EXCEPT
       !.flights = <<>>, !.isLoadingScores = FALSE,
       !.status = "running", !.isRunning = TRUE, !.timeLeft = GAME_SECONDS - 2,
       !.now = 1 + 5 * SPAWN_MS, !.startTimeRef = 1, !.lastPopAt = 1,
       !.comboDue = 1 + 8 * COMBO_CHECK_MS, !.spawnDue = 1 + 6 * SPAWN_MS,
       !.nextId = 2 * INITIAL_CANDLES,
       !.candles = [p \in 1..(2 * INITIAL_CANDLES) |->
                      IF p <= INITIAL_CANDLES
                      THEN makeCandle(p, SpawnedKinds[p], 1)
                      ELSE makeCandle(p, SpawnedKinds[p - INITIAL_CANDLES],
                                      1 + (p - INITIAL_CANDLES) * SPAWN_MS)]]

InitSpawn ==
    /\ gated = FALSE
    /\ client \in { Mounted(NoStorage), SpawnedRound }
    /\ probe = NoProbe
    /\ table = <<>>
    /\ hasSynced = FALSE
    /\ unmailed = {}
    /\ req = [r \in Reqs |-> NoRequest]

SpawnSteps == { SPAWN_MS, CANDLE_LIFE_MS - 5 * SPAWN_MS - 1, CANDLE_LIFE_MS - 5 * SPAWN_MS }

NextSpawn ==
    \/ \E kinds \in InitialKinds : StartGame(kinds)
    \/ PopCandle(1)
    \/ \E kind \in CandleKinds : SpawnTick(kind)
    \/ \E d \in SpawnSteps : Advance(d)

SpecSpawn == InitSpawn /\ [][NextSpawn]_vars

(***************************************************************************)
(* The countdown of a round: the clicks and the seconds, with no other     *)
(* time.  The interval of the countdown exists as long as the round runs   *)
(* and fires every second, so a tick that stays possible is taken.         *)
(***************************************************************************)
NextCountdown ==
    \/ \E kinds \in InitialKinds : StartGame(kinds)
    \/ ResetGame
    \/ \E i \in Clicks : PopCandle(i)
    \/ Tick

SpecCountdown == InitRound /\ [][NextCountdown]_vars /\ WF_vars(Tick)

(***************************************************************************)
(* The saving of scores: rounds on a page of either client, with any name  *)
(* and email stored, the modals, the "Save Score" button and the answers   *)
(* of /api/scores.  No time passes but the seconds of the countdown.       *)
(***************************************************************************)
\* What the player types in the modals
NameDrafts == { <<>>, Alex }
EmailDrafts == { <<"a">>, <<"A", "@", "b", ".", "c">> }

\* The leaderboards the page has loaded when a round is near its end
LoadedScores == { serializeAll(rows) : rows \in Seeds }

InitSubmit ==
    /\ gated \in BOOLEAN
    /\ client \in { Mounted(storage) : storage \in Storages }
                  \cup { LateRound(storage, scores) :
                           storage \in Storages, scores \in LoadedScores }
    /\ probe = NoProbe
    /\ table = <<>>
    /\ hasSynced = FALSE
    /\ unmailed = {}
    /\ req = [r \in Reqs |-> NoRequest]

NextSubmit ==
    \/ \E kinds \in InitialKinds : StartGame(kinds)
    \/ ResetGame
    \/ \E i \in Clicks : PopCandle(i)
    \/ Tick
    \/ OpenNameModal
    \/ CloseNameModal
    \/ \E nameDraft \in NameDrafts : ConfirmName(nameDraft)
    \/ \E emailDraft \in EmailDrafts : ConfirmEmail(emailDraft)
    \/ SubmitManual
    \/ \E i \in 1..Len(client.flights) : \E answer \in Answers : FetchAnswered(i, answer)
    \/ \E i \in 1..Len(client.flights) : \E answer \in Answers : PostAnswered(i, answer)

SpecSubmit == InitSubmit /\ [][NextSubmit]_vars

(***************************************************************************)
(* The bodies of the POSTs: rounds near their end whose stored name is     *)
(* blank, short, or longer than 40 characters with white space around the  *)
(* 40th, with the clock running on past the length of a round.             *)
(***************************************************************************)
LongName == Chars("x", 39) \o <<" ", "\t", "y", "z">>
BlankName == <<" ", "\t">>

\* localStorage as page.tsx:144-156 and Score.ts:194-216 read it
BodyStorages ==
    { [name |-> stored, confirmed |-> TRUE, email |-> <<"a", "@", "b", ".", "c">>] :
        stored \in {Alex, BlankName, LongName} }

InitBody ==
    /\ gated \in BOOLEAN
    /\ client \in { Mounted(storage) : storage \in BodyStorages }
                  \cup { LateRound(storage, scores) :
                           storage \in BodyStorages, scores \in LoadedScores }
    /\ probe = NoProbe
    /\ table = <<>>
    /\ hasSynced = FALSE
    /\ unmailed = {}
    /\ req = [r \in Reqs |-> NoRequest]

\* page.tsx:264-281: "Start Game" of a page on which no round was played
StartFirstGame(kinds) ==
    /\ client.status = "idle"
    /\ StartGame(kinds)

NextBody ==
    \/ \E kinds \in InitialKinds : StartFirstGame(kinds)
    \/ \E i \in Clicks : PopCandle(i)
    \/ Tick
    \/ Advance(1500)
    \/ SubmitManual
    \/ \E i \in 1..Len(client.flights) : \E answer \in Answers : PostAnswered(i, answer)

SpecBody == InitBody /\ [][NextBody]_vars

(***************************************************************************)
(* cleanName and cleanDisplayName on given values: strings of a run of     *)
(* letters of a length around MAX_NAME_LENGTH, with white space before,    *)
(* after and within, and values that are not strings.  The name is cleaned *)
(* and the result is cleaned again.                                        *)
(***************************************************************************)
NameRuns == {0, 1, MAX_NAME_LENGTH - 2, MAX_NAME_LENGTH - 1, MAX_NAME_LENGTH,
             MAX_NAME_LENGTH + 1}
NameGaps == { <<>>, <<" ">>, <<"\t", " ">> }
NameTails == { <<>>, <<"y">>, <<"y", " ", " ", "z">> }

NameValues ==
    { JStr(lead \o Chars("x", run) \o gap \o tail \o trail) :
        lead \in NameGaps, run \in NameRuns, gap \in NameGaps,
        tail \in NameTails, trail \in NameGaps }
    \cup { JUndefined, JNull, JNum(Int_(7)), JBool(TRUE) }

InitName ==
    /\ probe \in [pc : {"ready"}, function : {"cleanName", "cleanDisplayName"},
                   value : NameValues, name : {<<>>}, again : {<<>>}]
    /\ client = NoClient
    /\ gated = TRUE
    /\ table = <<>>
    /\ hasSynced = FALSE
    /\ unmailed = {}
    /\ req = [r \in Reqs |-> NoRequest]

\* route.ts:15-18 on body.name (route.ts:75); page.tsx:78-79 on the string of
\* the name field (page.tsx:248)
Clean ==
    /\ probe.pc = "ready"
    /\ probe.function = "cleanDisplayName" => probe.value.t = "string"
    /\ LET name == IF probe.function = "cleanName" THEN cleanName(probe.value)
                   ELSE cleanDisplayName(probe.value.s)
       IN  probe' = [probe EXCEPT
                       !.pc = "done",
                       !.name = name,
                       !.again = IF probe.function = "cleanName"
                                 THEN cleanName(JStr(name))
                                 ELSE cleanDisplayName(name)]
    /\ UNCHANGED <<client, gated, table, hasSynced, unmailed, req>>

SpecName == InitName /\ [][Clean]_vars

(***************************************************************************)
(* The email-gating page and the email-gating handler together.  The page  *)
(* of a player without a stored email is in a round near its end; its list *)
(* of scores is empty or the list the handler returned for the table as it *)
(* was.  Its POSTs are handled in the slot PageSlot and answered to it;     *)
(* meanwhile other players save scores through the slot OtherSlot.         *)
(***************************************************************************)
OtherSlot == "r1"
PageSlot == "r2"

\* A full top list whose last entry has one candle less than the others:
\* nine rows (29, 5000) and one (28, timeMs)
GateSeed(timeMs) ==
    [p \in 1..SCORE_LIMIT |->
        IF p < SCORE_LIMIT THEN SeedRow(p, MAX_CANDLES, 5000)
        ELSE SeedRow(p, MAX_CANDLES - 1, timeMs)]

\* The last entry has the time of a round that ends now, or a later one
GateSeeds == { <<>>, GateSeed(13000), GateSeed(14000) }

GateStorage == [name |-> Alex, confirmed |-> TRUE, email |-> <<>>]

\* The scores of the other players: one that enters the top list at its
\* head and one that becomes its last entry, both with an email
OtherPayloads ==
    { Payload("object", BaseName, JNum(Int_(MAX_CANDLES)), BaseTime, BaseEmail),
      Payload("object", BaseName, JNum(Int_(MAX_CANDLES - 1)), JNum(Int_(13500)),
              BaseEmail) }

InitGate ==
    /\ gated = TRUE
    /\ table \in GateSeeds
    /\ client \in { LateRound(GateStorage, scores) :
                      scores \in {<<>>} \cup { serializeAll(top) : top \in findAll(table) } }
    /\ probe = NoProbe
    /\ hasSynced = FALSE
    /\ unmailed = {}
    /\ req = [r \in Reqs |-> NoRequest]

\* JSON.stringify of the body (Score.ts:475-480) and request.json() of it
\* (route.ts:65)
PayloadOf(body) ==
    Payload("object", JStr(body.name), JNum(Int_(body.candles)),
            JNum(Int_(body.timeMs)),
            IF body.email = <<>> THEN JUndefined ELSE JStr(body.email))

\* response.ok, data.scores and data.error of a response (Score.ts:482-488)
AnswerOf(q) == Answer(q.status = 200, q.scores, q.error)

\* The POST of the page reaches the handler
PagePost(i) ==
    /\ i \in 1..Len(client.flights)
    /\ client.flights[i].method = "POST"
    /\ Post(PageSlot, PayloadOf(client.flights[i].body))

\* The response of the handler reaches the page
PageAnswered(i) ==
    /\ i \in 1..Len(client.flights)
    /\ client.flights[i].method = "POST"
    /\ req[PageSlot].pc = "done"
    /\ LET c == Effects(client, submitted(client, i, AnswerOf(req[PageSlot]))) IN
         /\ Len(c.flights) <= MaxFlights
         /\ client' = c
    /\ req' = [req EXCEPT ![PageSlot] = NoRequest]
    /\ UNCHANGED <<probe, gated, table, hasSynced, unmailed>>

NextGate ==
    \/ \E i \in Clicks : PopCandle(i)
    \/ Tick
    \/ \E payload \in OtherPayloads : ~AnyDone /\ Post(OtherSlot, payload)
    \/ \E i \in 1..Len(client.flights) : ~AnyDone /\ PagePost(i)
    \/ \E r \in Reqs : ~AnyDone /\ SyncDone(r)
    \/ \E r \in Reqs : ~AnyDone /\ ReadCurrentTop(r)
    \/ \E r \in Reqs : ~AnyDone /\ Create(r)
    \/ \E r \in Reqs : ~AnyDone /\ FindAll(r)
    \/ Respond(OtherSlot)
    \/ \E i \in 1..Len(client.flights) : PageAnswered(i)

SpecGate == InitGate /\ [][NextGate]_vars

(***************************************************************************)
(* Properties.                                                             *)
(***************************************************************************)
Range(f) == { f[p] : p \in DOMAIN f }

\* The leaderboard order as the specification words it: more candles first,
\* then less time, then the earlier submission.
RanksBefore(a, b) ==
    \/ a.candles > b.candles
    \/ a.candles = b.candles /\ a.timeMs < b.timeMs
    \/ a.candles = b.candles /\ a.timeMs = b.timeMs /\ a.createdAt < b.createdAt

\* The requests that have arrived
Arrived == { r \in Reqs : req[r].pc # "idle" }

\* The rows of the table that a response lists, in the order of the response
Listed(scores) == [p \in 1..Len(scores) |-> table[scores[p].id]]

\* C1: isTopTenCandidate(candles, timeMs, scores) is true if and only if the
\* list has fewer than 10 entries, or candles is above the candles of the 10th
\* entry, or candles equals them and timeMs is below its timeMs; with ten
\* entries (29, 1000) the candidate (29, 999) qualifies and (29, 1000) does not.
TenTimes29_1000 == [p \in 1..10 |-> Row(p, SeedName, 29, 1000, p)]

AdmissionRule ==
    /\ probe.pc = "done" =>
         ( probe.result <=>
             \/ Len(probe.scores) < 10
             \/ probe.candles > probe.scores[10].candles
             \/ /\ probe.candles = probe.scores[10].candles
                /\ probe.timeMs < probe.scores[10].timeMs )
    /\ probe.pc = "done" /\ probe.scores = TenTimes29_1000 /\ probe.candles = 29 =>
         /\ probe.timeMs = 999 => probe.result
         /\ probe.timeMs = 1000 => ~probe.result

AdmissionRuleWitness ==
    /\ probe.pc = "done"
    /\ probe.scores = TenTimes29_1000
    /\ probe.candles = 29
    /\ probe.timeMs = 999
    /\ probe.result

\* C2: a successful GET returns min(10, N) of the N rows of the table, in
\* leaderboard order, and no row it leaves out ranks before a row it returns.
GetReturnsTop ==
    \A r \in Reqs :
        req[r].pc = "done" /\ req[r].method = "GET" /\ req[r].status = 200 =>
            LET scores == req[r].scores
                ids == { scores[p].id : p \in 1..Len(scores) }
            IN  /\ Len(scores) = Min(10, Len(table))
                /\ ids \subseteq 1..Len(table)
                /\ Cardinality(ids) = Len(scores)
                /\ \A p \in 1..Len(scores) :
                       scores[p] = serializeScore(table[scores[p].id])
                /\ \A p \in 1..Len(scores) : \A n \in 1..Len(scores) :
                       p < n => ~RanksBefore(Listed(scores)[n], Listed(scores)[p])
                /\ \A x \in 1..Len(table) : \A p \in 1..Len(scores) :
                       x \notin ids => ~RanksBefore(table[x], Listed(scores)[p])

\* a GET has answered from a table of more than ten rows where the row left
\* out ties a listed row on candles and time
GetReturnsTopWitness ==
    \E r \in Reqs :
        /\ req[r].pc = "done" /\ req[r].method = "GET" /\ req[r].status = 200
        /\ Len(table) > 10
        /\ \E x \in 1..Len(table) : \E p \in 1..Len(req[r].scores) :
              /\ \A n \in 1..Len(req[r].scores) : req[r].scores[n].id # x
              /\ table[x].candles = req[r].scores[p].candles
              /\ table[x].timeMs = req[r].scores[p].timeMs

\* C3: in the email-gated POST, a submission that passed validation and whose
\* top list has been read is rejected with 400 'Email required for top 10
\* scores.' if and only if it has no email and isTopTenCandidate holds of its
\* rounded-down score and that list; a request rejected so has inserted nothing.
TopWasRead(q) ==
    /\ q.method = "POST"
    /\ \/ q.pc \in {"create", "findAll"}
       \/ q.pc = "done" /\ q.error = "Email required for top 10 scores."
       \/ q.pc = "done" /\ "create" \in Range(q.calls)

EmailRequired(q) ==
    q.pc = "done" /\ q.status = 400 /\ q.error = "Email required for top 10 scores."

EmailGate ==
    \A r \in Reqs :
        LET q == req[r] IN
        /\ q.error = "Email required for top 10 scores." => gated /\ EmailRequired(q)
        /\ gated /\ TopWasRead(q) =>
             /\ EmailRequired(q) <=>
                  /\ q.email = <<>>
                  /\ isTopTenCandidate(q.candlesValue.i, q.timeMsValue.i, q.currentTop)
             /\ EmailRequired(q) =>
                  /\ q.created = 0
                  /\ "create" \notin Range(q.calls)
                  /\ NewRows = {}

\* a score without email is rejected against a full top list
EmailGateWitness ==
    \E r \in Reqs :
        /\ EmailRequired(req[r])
        /\ Len(req[r].currentTop) = 10
        /\ req[r].candlesValue.i = req[r].currentTop[10].candles
        /\ req[r].timeMsValue.i < req[r].currentTop[10].timeMs

\* The place of row x in a response: every row listed before it does not rank
\* after it and every row listed after it does not rank before it.
ListedAt(scores, x, p) ==
    /\ scores[p] = serializeScore(table[x])
    /\ \A n \in 1..Len(scores) :
          /\ n < p => ~RanksBefore(table[x], Listed(scores)[n])
          /\ n > p => ~RanksBefore(Listed(scores)[n], table[x])

RoundTripDone ==
    /\ Accepted
    /\ req["r2"].pc = "done" /\ req["r2"].status = 200

\* C4 as claimed: after a POST that was accepted, a following GET returns a
\* list that contains the new record at the position the order assigns to it.
RoundTripListsNewRow ==
    RoundTripDone =>
        \E p \in 1..Len(req["r2"].scores) :
            ListedAt(req["r2"].scores, req["r1"].created, p)

\* C4, amended: after a POST that was accepted, a following GET returns a list
\* that contains the new record, at the position the order assigns to it, if
\* fewer than 10 other rows rank before it or tie with it; the list does not
\* contain it if 10 or more rows rank before it.
RoundTripWithinLimit ==
    RoundTripDone =>
        LET x == req["r1"].created
            scores == req["r2"].scores
            notAfter == { y \in 1..Len(table) : y # x /\ ~RanksBefore(table[x], table[y]) }
            before == { y \in 1..Len(table) : RanksBefore(table[y], table[x]) }
        IN  /\ x \in 1..Len(table)
            /\ Cardinality(notAfter) < 10 =>
                  \E p \in 1..Len(scores) : ListedAt(scores, x, p)
            /\ Cardinality(before) >= 10 =>
                  \A p \in 1..Len(scores) : scores[p].id # x

\* the new row takes the tenth place of a full list, behind rows that tie it on
\* candles
RoundTripWitness ==
    /\ RoundTripDone
    /\ Len(table) = 11
    /\ ListedAt(req["r2"].scores, req["r1"].created, 10)
    /\ req["r2"].scores[9].candles > req["r2"].scores[10].candles

\* C5: every row of the table has integer candles in 0..29, integer timeMs in
\* 0..15000 and a name that is non-empty after trimming and has at most 40
\* characters.
StoredRowsValid ==
    \A p \in 1..Len(table) :
        /\ table[p].candles \in 0..29
        /\ table[p].timeMs \in 0..15000
        /\ trim(table[p].name) # <<>>
        /\ Len(table[p].name) <= 40

\* two requests have each added a row, one of them with a name cut to 40
\* characters and numbers that were rounded down
StoredRowsWitness ==
    /\ Cardinality(NewRows) = 2
    /\ \E p \in NewRows :
          /\ Len(table[p].name) = 40
          /\ table[p].candles = 10
          /\ table[p].timeMs = 5000
    /\ \E p \in NewRows : table[p].candles = 29

\* C6: the table is append-only.  A step that changes the table adds exactly
\* one row with an id no row had, leaves every other row as it was, and is the
\* step of a POST; no step of a GET changes the table.
AppendOnlyStep ==
    /\ Len(table') >= Len(table)
    /\ SubSeq(table', 1, Len(table)) = table
    /\ table' # table =>
          /\ Len(table') = Len(table) + 1
          /\ \A p \in 1..Len(table) : table[p].id # table'[Len(table')].id
          /\ \E r \in Reqs :
                /\ req[r].method = "POST"
                /\ req[r].created = 0
                /\ req'[r].created = table'[Len(table')].id
    /\ \A r \in Reqs :
          req[r].method = "GET" /\ req'[r] # req[r] => table' = table

AppendOnly == [][AppendOnlyStep]_vars

\* two rows have been added to a full table
AppendOnlyWitness ==
    /\ Len(table) = 12
    /\ Cardinality(NewRows) = 2
    /\ \E r \in Reqs : req[r].created = 12

\* x is a finite number with lo <= x <= hi
InRange(x, lo, hi) ==
    /\ x.k = "fin"
    /\ lo <= x.i
    /\ x.i < hi \/ (x.i = hi /\ x.h = 0)

\* The POSTs whose body was parsed
Parsed == { r \in Reqs : req[r].method = "POST" /\ req[r].parse \in {"object", "other"} }

\* C7: a POST whose cleaned name is empty, whose candles are not a finite
\* number in 0..29, whose timeMs is not a finite number in 0..15000, or (with
\* the email gate) whose email is present and does not match the pattern, is
\* answered 400 with an error message; it has issued no store operation and
\* nothing has been inserted.
ValidationRejects ==
    \A r \in Parsed :
        LET q == req[r] IN
        ( \/ q.name = <<>>
          \/ ~InRange(q.candlesValue, 0, 29)
          \/ ~InRange(q.timeMsValue, 0, 15000)
          \/ gated /\ q.email # <<>> /\ ~EMAIL_REGEX_test(q.email) )
        => /\ q.pc = "done"
           /\ q.status = 400
           /\ q.error # ""
           /\ q.calls = <<>>
           /\ q.created = 0
           /\ NewRows = {}

\* a time of -1 ms is rejected
ValidationRejectsWitness ==
    \E r \in Parsed :
        /\ req[r].pc = "done"
        /\ req[r].timeMsValue = Int_(-1)
        /\ req[r].error = "Time must be a valid number."

\* C8: a POST with a name passes the two range checks exactly when
\* 0 <= candles <= 29 and 0 <= timeMs <= 15000; 29 candles and 15000 ms pass,
\* 30 candles and 15001 ms are answered 400.
RangeErrors == {"Candles must be a valid number.", "Time must be a valid number."}

RangeBoundaries ==
    \A r \in Parsed :
        LET q == req[r] IN
        q.name # <<>> =>
            /\ q.error \notin RangeErrors <=>
                 InRange(q.candlesValue, 0, 29) /\ InRange(q.timeMsValue, 0, 15000)
            /\ q.candlesValue = Int_(29) /\ q.timeMsValue = Int_(15000) =>
                 q.error \notin RangeErrors
            /\ q.candlesValue = Int_(30) \/ q.timeMsValue = Int_(15001) =>
                 q.status = 400 /\ q.error \in RangeErrors

\* 29 candles in 15000 ms have passed validation
RangeBoundariesWitness ==
    \E r \in Parsed :
        /\ req[r].candlesValue = Int_(29)
        /\ req[r].timeMsValue = Int_(15000)
        /\ req[r].pc = "sync"

\* C9: on an empty table, POST of {name: "Alex", candles: 10,
\* timeMs: 5000} without email succeeds (unless the store fails), inserts one
\* row and returns the list of that row alone.
FirstScoreSucceeds ==
    \A r \in Parsed :
        LET q == req[r] IN
        /\ q.name = <<"A", "l", "e", "x">>
        /\ q.candlesValue = Int_(10)
        /\ q.timeMsValue = Int_(5000)
        /\ q.email = <<>>
        /\ q.size0 = 0
        /\ q.pc = "done"
        /\ q.status # 500
        => /\ q.status = 200
           /\ Len(table) = 1
           /\ q.created = 1
           /\ q.scores = <<serializeScore(table[1])>>

\* C10, as stated: a POST whose body is not JSON is answered 500 with an
\* error message, and nothing is inserted.
BadJsonAnswered500 ==
    \A r \in Reqs :
        req[r].parse = "error" /\ req[r].pc = "done" =>
            /\ req[r].status = 500
            /\ req[r].error # ""
            /\ req[r].created = 0

\* C10, amended: a POST whose body is not JSON is answered 400 with the
\* message 'Invalid JSON.'; it issues no store operation and nothing is
\* inserted.
BadJsonAnswered400 ==
    \A r \in Reqs :
        req[r].parse = "error" =>
            /\ req[r].pc = "done"
            /\ req[r].status = 400
            /\ req[r].error = "Invalid JSON."
            /\ req[r].calls = <<>>
            /\ req[r].created = 0
            /\ NewRows = {}

\* a body that is not JSON has been answered, on a full table
BadJsonWitness ==
    \E r \in Reqs :
        /\ req[r].parse = "error"
        /\ req[r].pc = "done"
        /\ Len(table) = 10

\* C11: when a store operation fails (the schema sync, the read of the top
\* 10, the insert or the refetch), GET answers 500 'Unable to load scores.' and
\* POST answers 500 'Unable to save score.'; no response holds both an error
\* and a list of scores.
StoreFailureStep ==
    /\ \A r \in Reqs :
          SyncFail(r) \/ StoreFail(r) =>
              /\ req'[r].pc = "done"
              /\ req'[r].status = 500
              /\ req'[r].error = IF req[r].method = "GET" THEN "Unable to load scores."
                                 ELSE "Unable to save score."
    /\ \A r \in Reqs :
          /\ req'[r].error # "" => req'[r].scores = <<>> /\ req'[r].status # 200
          /\ req'[r].status = 200 => req'[r].error = ""

StoreFailures == [][StoreFailureStep]_vars

\* the refetch of a POST has failed after its insert
StoreFailuresWitness ==
    \E r \in Reqs :
        /\ req[r].method = "POST"
        /\ req[r].status = 500
        /\ req[r].error = "Unable to save score."
        /\ req[r].created # 0
        /\ req[r].calls = <<"findAll", "create", "findAll">>

\* C12: the row created from a submission with a valid email has that
\* (trimmed, lower-cased) email as its email attribute, and the row created
\* from a submission without email has none.
EmailRetained ==
    \A r \in Reqs :
        LET q == req[r] IN
        q.method = "POST" /\ q.created # 0 =>
            LET row == table[q.created] IN
            IF q.email # <<>>
            THEN "email" \in DOMAIN row /\ row.email = JStr(q.email)
            ELSE "email" \notin DOMAIN row \/ row.email = JNull

\* C13: a POST that has read the top 10 can insert whatever other requests
\* have done since, and what the gate decided is what isTopTenCandidate says
\* of the list the request read, not of the table as it is at the insert.
InsertsWithoutLock ==
    \A r \in Reqs :
        req[r].pc = "create" =>
            /\ ENABLED Create(r)
            /\ gated =>
                  \/ req[r].email # <<>>
                  \/ ~isTopTenCandidate(floor(req[r].candlesValue),
                                        floor(req[r].timeMsValue), req[r].currentTop)

\* the score of request r beats the last of the ten rows the request read
BeatsTenth(r) ==
    /\ Len(req[r].currentTop) = 10
    /\ \/ req[r].candlesValue.i > req[r].currentTop[10].candles
       \/ /\ req[r].candlesValue.i = req[r].currentTop[10].candles
          /\ req[r].timeMsValue.i < req[r].currentTop[10].timeMs

\* the number of rows of the table that rank before row x
RowsBefore(x) == Cardinality({ y \in 1..Len(table) : RanksBefore(table[y], table[x]) })

\* two POSTs have read the same ten rows, both beat the tenth and both have
\* inserted; of the two new rows one is in the top 10 of the table and the
\* other is not
RaceWitness ==
    /\ gated
    /\ req["r1"].method = "POST" /\ req["r2"].method = "POST"
    /\ req["r1"].created # 0 /\ req["r2"].created # 0
    /\ req["r1"].currentTop = req["r2"].currentTop
    /\ BeatsTenth("r1") /\ BeatsTenth("r2")
    /\ RowsBefore(req["r1"].created) < 10
    /\ RowsBefore(req["r2"].created) >= 10

\* C14: a query (findAll, create) is issued only once a sequelize.sync of
\* this process has succeeded; a request whose sync fails answers 500 having
\* issued no query and leaves hasSynced as it is, so that hasSynced is only
\* set by a sync that succeeds and a request that finds it false syncs first.
Queries == {"findAll", "create"}

SyncStep ==
    /\ \A r \in Reqs :
          /\ Len(req'[r].calls) > Len(req[r].calls)
          /\ req'[r].calls[Len(req'[r].calls)] \in Queries
          => hasSynced
    /\ \A r \in Reqs :
          SyncFail(r) =>
              /\ req'[r].status = 500
              /\ req'[r].calls = <<"sync">>
              /\ hasSynced' = hasSynced
    /\ hasSynced' # hasSynced =>
          /\ hasSynced'
          /\ \E r \in Reqs : /\ req[r].pc = "sync"
                             /\ req'[r].pc \in {"findAll", "currentTop", "create"}
    /\ \A r \in Reqs :
          /\ req[r].pc = "idle"
          /\ req'[r].pc \notin {"idle", "done"}
          /\ ~hasSynced
          => req'[r].pc = "sync" /\ req'[r].calls = <<"sync">>

SyncBeforeQueries == [][SyncStep]_vars

\* a request after one whose sync failed is syncing again
SyncWitness ==
    /\ ~hasSynced
    /\ req["r1"].status = 500 /\ req["r1"].calls = <<"sync">>
    /\ req["r2"].pc = "sync"

\* C15 as stated: the status changes only from idle to running, from running
\* to ended and from ended to idle.
StatusCycleStep ==
    client'.status # client.status =>
        \/ client.status = "idle" /\ client'.status = "running"
        \/ client.status = "running" /\ client'.status = "ended"
        \/ client.status = "ended" /\ client'.status = "idle"

StatusCycle == [][StatusCycleStep]_vars

\* C15, amended: the status changes only from idle to running, from running to
\* ended, and from ended to idle (resetGame) or to running (startGame).
StatusMovesStep ==
    client'.status # client.status =>
        \/ client.status = "idle" /\ client'.status = "running"
        \/ client.status = "running" /\ client'.status = "ended"
        \/ client.status = "ended" /\ client'.status \in {"idle", "running"}

StatusMoves == [][StatusMovesStep]_vars

\* a round is running after an earlier round
StatusMovesWitness ==
    /\ client.status = "running"
    /\ client.nextId > INITIAL_CANDLES

\* C16: the step that ends a round sets endReason to its cause (the countdown
\* at zero: 'time', a bomb: 'bomb', 29 candles: 'candles') and elapsedMs to the
\* time since the start, at most 15000; while the status stays ended no step
\* changes endReason, elapsedMs or candlesPlaced.
RoundEndStep ==
    /\ client.status = "running" /\ client'.status = "ended" =>
          /\ client'.endReason = "candles" <=> client'.candlesPlaced = 29
          /\ client'.endReason = "bomb" <=>
                \E p \in 1..Len(client'.candles) : client'.candles[p].state = "boom"
          /\ client'.endReason = "time" <=>
                /\ client.timeLeft <= 1 /\ client'.timeLeft = 0
                /\ client'.candlesPlaced = client.candlesPlaced
                /\ client'.candles = <<>>
          /\ client'.elapsedMs = Min(client.now - client.startTimeRef, 15000)
    /\ client.status = "ended" /\ client'.status = "ended" =>
          /\ client'.endReason = client.endReason
          /\ client'.elapsedMs = client.elapsedMs
          /\ client'.candlesPlaced = client.candlesPlaced

RoundEndsOnce == [][RoundEndStep]_vars

\* a bomb ended the round half a second ago or more; the field is still there
RoundEndsOnceWitness ==
    /\ client.status = "ended"
    /\ client.endReason = "bomb"
    /\ client.candlesPlaced > 0
    /\ client.now >= client.startTimeRef + client.elapsedMs + 500
    /\ \E p \in 1..Len(client.candles) : client.candles[p].state = "alive"

\* A click on candle i that pops it: the round is running and the candle is
\* alive; bomb tells whether it is a bomb.
Pops(i, bomb) ==
    /\ client.isRunning
    /\ i \in 1..Len(client.candles)
    /\ client.candles[i].state = "alive"
    /\ client.candles[i].isBomb = bomb
    /\ PopCandle(i)

\* C19 as stated: every pop of a candle that is no bomb adds one to the combo.
ComboIncrements ==
    [][\A i \in Clicks : Pops(i, FALSE) => client'.combo = client.combo + 1]_vars

\* C19, amended: every pop of a candle that is no bomb adds one to the combo,
\* up to 8: at 8 the combo stays 8.
ComboIncrementsToCap ==
    [][\A i \in Clicks : Pops(i, FALSE) =>
          client'.combo = IF client.combo < 8 THEN client.combo + 1 ELSE 8]_vars

\* the pop of the 29th candle has left the combo at 8
ComboCapWitness ==
    /\ client.combo = 8
    /\ client.candlesPlaced = 29

\* C20: the pop of a bomb sets the combo to 0; a check of the combo interval
\* sets it to 0 if more than 1800 ms have passed since the last pop (or the
\* start of the round) and leaves it as it is otherwise; the interval starts
\* again at every pop, so the check comes 300 ms after it at the earliest.
ComboResetStep ==
    /\ \A i \in Clicks : Pops(i, TRUE) => client'.combo = 0
    /\ \A i \in Clicks : Pops(i, FALSE) /\ client'.isRunning =>
          /\ client'.lastPopAt = client.now
          /\ client'.comboDue = client.now + 300
    /\ ComboCheck =>
          /\ client.now - client.lastPopAt >= 300
          /\ client.now - client.lastPopAt > 1800 => client'.combo = 0
          /\ client.now - client.lastPopAt <= 1800 => client'.combo = client.combo

ComboResets == [][ComboResetStep]_vars

\* a combo was reset by the check that followed 1800 ms without a pop
ComboResetsWitness ==
    /\ client.isRunning
    /\ client.candlesPlaced > 0
    /\ client.combo = 0
    /\ client.now - client.lastPopAt > 1800
    /\ client.comboDue > client.now


(***************************************************************************)
(* C17: whenever a round ends while the name is confirmed and, if the      *)
(* score qualifies for the top 10, the email is confirmed, exactly one     *)
(* automatic POST is sent for that round: it is sent, and never a second   *)
(* time, also when it fails.  Stated for the rounds that placed a candle:  *)
(* no round has two automatic POSTs, and once such a round has ended and   *)
(* no POST is awaiting its answer, its automatic POST has been sent.       *)
(***************************************************************************)
AutoSubmitOwed ==
    /\ client.status = "ended"
    /\ client.hasConfirmedName
    /\ client.candlesPlaced > 0
    /\ (gated /\ qualifiesForTopTen(client)) => client.hasConfirmedEmail
    /\ ~client.isSubmitting

AutoSubmitsOnce ==
    /\ client.autoPosts <= 1
    /\ AutoSubmitOwed => client.autoPosts = 1

(***************************************************************************)
(* C18: in the email-gating client, every POST, automatic or manual, sent  *)
(* for a score that qualifiesForTopTen judges qualifying against the       *)
(* cached top list carries the confirmed email; while such a score has no  *)
(* confirmed email no POST is sent and the email modal is open.            *)
(***************************************************************************)
\* The step sends a POST: the automatic one, or the one of "Save Score"
PostSent ==
    \/ client'.autoPosts = client.autoPosts + 1
    \/ ~client.isSubmitting /\ client'.isSubmitting

SentPost == client'.flights[Len(client'.flights)]

EmailGatingStep ==
    gated =>
      /\ (PostSent /\ qualifiesForTopTen(client')) =>
            /\ client'.hasConfirmedEmail
            /\ SentPost.method = "POST"
            /\ SentPost.body.email # <<>>
            /\ SentPost.body.email = cleanEmailDraft(client'.playerEmail)
      /\ (qualifiesForTopTen(client') /\ ~client'.hasConfirmedEmail) =>
            /\ ~PostSent
            /\ (client'.status = "ended" /\ client'.hasConfirmedName
                /\ ~client'.hasSubmittedRound) => client'.isEmailModalOpen

EmailGating == [][EmailGatingStep]_vars

\* Both cases in one round: the round has ended with a qualifying score and
\* an email typed in the modal (none was stored), and its POST, under way,
\* carries that email.
EmailGatingWitness ==
    /\ gated
    /\ client.status = "ended"
    /\ qualifiesForTopTen(client)
    /\ client.hasConfirmedEmail
    /\ client.playerEmail = <<"a", "@", "b", ".", "c">>
    /\ \E i \in 1..Len(client.flights) :
          /\ client.flights[i].method = "POST"
          /\ client.flights[i].current
          /\ client.flights[i].body.email = client.playerEmail
          /\ client.flights[i].body.candles = client.candlesPlaced


(***************************************************************************)
(* C21: every pop of a candle that is no bomb, golden or not, adds exactly *)
(* one to candlesPlaced; the pop of a bomb leaves candlesPlaced as it is;  *)
(* candlesPlaced is always within 0..29 and below 29 while the round is    *)
(* running.                                                                *)
(***************************************************************************)
CandlesPlacedInRange ==
    /\ client.candlesPlaced \in 0..29
    /\ client.status = "running" => client.candlesPlaced < 29

CandlesPlacedStep ==
    \A i \in Clicks :
       /\ Pops(i, FALSE) => client'.candlesPlaced = client.candlesPlaced + 1
       /\ Pops(i, TRUE) => client'.candlesPlaced = client.candlesPlaced

OnePerPop ==
    /\ CandlesPlacedInRange
    /\ [][CandlesPlacedStep /\ CandlesPlacedInRange']_vars

\* a golden candle has just been popped and the count stands at 28
OnePerPopWitness ==
    /\ client.status = "running"
    /\ client.candlesPlaced = 28
    /\ \E p \in 1..Len(client.candles) :
          client.candles[p].isGolden /\ client.candles[p].state = "blown"


(***************************************************************************)
(* C22: the page starts a POST, automatic or manual, only when the status  *)
(* is ended, the name is confirmed and not empty and candlesPlaced > 0, so *)
(* never while a round is running or the page is idle, and never for a     *)
(* round that ended with no candle; the POST carries that name and count.  *)
(***************************************************************************)
PostOnlyAfterRoundStep ==
    PostSent =>
      /\ client'.status = "ended"
      /\ client'.hasConfirmedName
      /\ trim(client'.playerName) # <<>>
      /\ client'.candlesPlaced > 0
      /\ SentPost.method = "POST"
      /\ SentPost.body.name = cleanDisplayName(client'.playerName)
      /\ SentPost.body.candles = client'.candlesPlaced

PostOnlyAfterRound == [][PostOnlyAfterRoundStep]_vars

\* "Save Score" has been pressed after the automatic POST of the round failed
PostOnlyAfterRoundWitness ==
    /\ client.status = "ended"
    /\ client.autoPosts = 1
    /\ client.isSubmitting
    /\ \E i \in 1..Len(client.flights) :
          /\ client.flights[i].method = "POST"
          /\ client.flights[i].source = "manual"
          /\ client.flights[i].current


(***************************************************************************)
(* C23: the record inserted for an accepted submission with numbers c and  *)
(* t has candles = floor(c) and timeMs = floor(t), and the email gate of   *)
(* the same request has judged exactly these two integers: a request       *)
(* without email went on to insert only if they are no top-10 candidate    *)
(* against the list it read.                                               *)
(***************************************************************************)
Inserted == { r \in Reqs : req[r].method = "POST" /\ req[r].created # 0 }

IntegerTruncation ==
    \A r \in Inserted :
        LET q == req[r]
            row == table[q.created]
        IN  /\ isFinite(q.candlesValue) /\ isFinite(q.timeMsValue)
            /\ row.candles = q.candlesValue.i
            /\ row.timeMs = q.timeMsValue.i
            /\ row.candles \in 0..MAX_CANDLES /\ row.timeMs \in 0..MAX_TIME_MS
            /\ (gated /\ q.email = <<>>) =>
                  ~isTopTenCandidate(row.candles, row.timeMs, q.currentTop)

\* 10.5 candles without email against a top list whose 10th entry has 10
\* candles: the score is inserted as 10 candles; unrounded, 10.5 > 10 would
\* have required an email
IntegerTruncationWitness ==
    \E r \in Inserted :
        /\ gated
        /\ req[r].pc = "done" /\ req[r].status = 200
        /\ req[r].email = <<>>
        /\ req[r].candlesValue.h = 1
        /\ Len(req[r].currentTop) = SCORE_LIMIT
        /\ req[r].currentTop[SCORE_LIMIT].candles = req[r].candlesValue.i
        /\ table[req[r].created].candles = req[r].candlesValue.i


(***************************************************************************)
(* C24: when the fetch of the leaderboard fails, highScores becomes the    *)
(* empty list, isLoadingScores becomes false and neither banner changes;   *)
(* when a POST fails, hasSubmittedRound stays false, the leaderboard stays *)
(* as it is and the error of the answer is put in the error banner, where  *)
(* it stays unless the render that shows it starts the automatic POST of   *)
(* the round, which clears the banners.                                    *)
(***************************************************************************)
Failures == { answer \in Answers : ~answer.ok }

FailureStep ==
    \A i \in 1..Len(client.flights) : \A answer \in Failures :
       /\ FetchAnswered(i, answer) =>
             /\ client'.highScores = <<>>
             /\ ~client'.isLoadingScores
             /\ client'.error = client.error
             /\ client'.message = client.message
             /\ client'.hasSubmittedRound = client.hasSubmittedRound
       /\ PostAnswered(i, answer) =>
             /\ ~client.hasSubmittedRound /\ ~client'.hasSubmittedRound
             /\ client'.highScores = client.highScores
             /\ \/ client'.error = answer.error /\ ~client'.isSubmitting
                \/ client'.autoPosts = client.autoPosts + 1 /\ client'.error = ""

TimeLeftInRange ==
    /\ client.timeLeft \in 0..GAME_SECONDS
    /\ client.status = "running" => client.isRunning /\ client.timeLeft >= 1

CountdownStep ==
    (client.isRunning /\ Tick) =>
       IF client.timeLeft <= 1
       THEN /\ client'.status = "ended"
            /\ client'.endReason = "time"
            /\ client'.timeLeft = 0
       ELSE /\ client'.status = "running"
            /\ client'.timeLeft = client.timeLeft - 1

CountdownEnds ==
    /\ []TimeLeftInRange
    /\ [][CountdownStep]_vars
    /\ (client.status = "running") ~> (client.status = "ended")

\* a round started on the page has run out of time after its 15 ticks
CountdownEndsWitness ==
    /\ client.status = "ended"
    /\ client.endReason = "time"
    /\ client.timeLeft = 0
    /\ client.nextId = INITIAL_CANDLES
    /\ client.candlesPlaced > 0


(***************************************************************************)
(* C26: while a round is running a tick of the spawner removes every       *)
(* candle whose age is 2600 ms or more, keeps the others and then adds at  *)
(* most one new candle, none when 12 or more are kept; the field never     *)
(* holds more than 12 candles and no candle of age 2600 ms or more         *)
(* survives a tick.                                                        *)
(***************************************************************************)
Age(candle) == client.now - candle.bornAt

SpawnStep ==
    \A kind \in CandleKinds :
       (client.isRunning /\ SpawnTick(kind)) =>
          LET kept == SelectSeq(client.candles, LAMBDA candle : Age(candle) < 2600)
              new == { p \in 1..Len(client'.candles) :
                         \A o \in 1..Len(client.candles) :
                            client.candles[o].id # client'.candles[p].id }
          IN  /\ \A p \in 1..Len(client'.candles) : Age(client'.candles[p]) < 2600
              /\ SubSeq(client'.candles, 1, Len(kept)) = kept
              /\ Len(client'.candles) = Len(kept) + Cardinality(new)
              /\ Cardinality(new) <= 1
              /\ Len(kept) >= 12 => new = {}
              /\ \A p \in new : client'.candles[p].bornAt = client.now
                                  /\ client'.candles[p].state = "alive"

CreatedAtIncreasing ==
    \A x \in 1..Len(table) : \A y \in 1..Len(table) :
        x < y => table[x].createdAt < table[y].createdAt

Answered200 == { r \in Reqs : req[r].pc = "done" /\ req[r].status = 200 }

UnmailedNeverListed ==
    (gated /\ CreatedAtIncreasing) =>
        \A r \in Answered200 : \A p \in 1..Len(req[r].scores) :
            req[r].scores[p].id \notin unmailed

\* a POST without email has inserted its row and has its answer, which lists
\* ten other rows, while a POST with email has inserted a row as well
UnmailedNeverListedWitness ==
    /\ gated /\ CreatedAtIncreasing
    /\ Len(table) = SCORE_LIMIT + 2
    /\ \E r \in Answered200 :
          /\ req[r].created \in unmailed
          /\ Len(req[r].scores) = SCORE_LIMIT
          /\ \E p \in 1..SCORE_LIMIT : req[r].scores[p].id > SCORE_LIMIT


(***************************************************************************)
(* C28 as stated: under any interleaving of POSTs, the list that a         *)
(* successful gated POST returns contains the row this POST inserted,      *)
(* whenever its score was judged a top-10 candidate by its email gate.     *)
(***************************************************************************)
\* The gated POSTs answered 200 whose floored score the gate judged a candidate
AdmittedAsCandidate ==
    { r \in Answered200 :
        /\ gated /\ req[r].method = "POST" /\ req[r].created # 0
        /\ isTopTenCandidate(req[r].candlesValue.i, req[r].timeMsValue.i,
                             req[r].currentTop) }

OwnRowListed(r) == \E p \in 1..Len(req[r].scores) : req[r].scores[p].id = req[r].created

CandidateListed == \A r \in AdmittedAsCandidate : OwnRowListed(r)

(***************************************************************************)
(* C28, amended: the list contains the row the POST inserted whenever no   *)
(* other row was inserted between the arrival of the request and its       *)
(* answer; a row that another POST inserts in between can take its place.  *)
(***************************************************************************)
CandidateListedAlone ==
    \A r \in AdmittedAsCandidate : Len(table) = req[r].size0 + 1 => OwnRowListed(r)

\* the new row is the 10th of the list, in place of the row that was read
\* as the 10th
CandidateListedWitness ==
    \E r \in AdmittedAsCandidate :
        /\ Len(table) = req[r].size0 + 1
        /\ Len(req[r].currentTop) = SCORE_LIMIT
        /\ req[r].scores[SCORE_LIMIT].id = req[r].created
        /\ req[r].currentTop[SCORE_LIMIT].id # req[r].created


(***************************************************************************)
(* C29: whenever a POST is answered with an error status, 400 or 500, the  *)
(* store holds exactly the rows it held when the request arrived: the      *)
(* request has inserted nothing.                                           *)
(***************************************************************************)
ErrorLeavesStore ==
    \A r \in Reqs :
        (req[r].pc = "done" /\ req[r].method = "POST" /\ req[r].status \in {400, 500}) =>
            /\ req[r].created = 0
            /\ Len(table) = req[r].size0


(***************************************************************************)
(* C30: once the top list has 10 entries its 10th entry never becomes      *)
(* weaker (fewer candles, or as many candles and a higher timeMs), under   *)
(* any interleaving of POSTs; so a score that isTopTenCandidate rejects    *)
(* against a top list of 10 is rejected against every later top list.      *)
(***************************************************************************)
Weaker(a, b) ==
    \/ a.candles < b.candles
    \/ a.candles = b.candles /\ a.timeMs > b.timeMs

CandidateCandles == {9, 10, 11, 28, 29}
CandidateTimes == {0, 4999, 5000, 5001}

\* a step that changes the table of SCORE_LIMIT rows or more
StrengthStep ==
    (Len(table) >= SCORE_LIMIT /\ table' # table) =>
        \A top \in findAll(table) : \A later \in findAll(table') :
            /\ Len(later) = SCORE_LIMIT
            /\ ~Weaker(later[SCORE_LIMIT], top[SCORE_LIMIT])
            /\ \A c \in CandidateCandles : \A t \in CandidateTimes :
                  ~isTopTenCandidate(c, t, top) => ~isTopTenCandidate(c, t, later)

StrengthMonotone == [][StrengthStep]_vars

\* the 10th entry has become stronger: it had 10 candles and has 29 now, and
\* a score of 11 candles, once a candidate, is one no more
StrengthMonotoneWitness ==
    /\ Len(table) > SCORE_LIMIT
    /\ table[SCORE_LIMIT].candles = 10
    /\ \A top \in findAll(table) :
          /\ top[SCORE_LIMIT].candles = 29
          /\ ~isTopTenCandidate(11, 0, top)


(***************************************************************************)
(* C32: hasSubmittedRound becomes true only by the success of a POST that  *)
(* was sent in the current round: the answer to a POST sent before the     *)
(* last startGame or resetGame leaves hasSubmittedRound false.             *)
(***************************************************************************)
SubmittedStep ==
    (~client.hasSubmittedRound /\ client'.hasSubmittedRound) =>
        \E i \in 1..Len(client.flights) : \E answer \in Answers :
            /\ answer.ok
            /\ PostAnswered(i, answer)
            /\ client.flights[i].current
            /\ client.flights[i].body.candles = client.candlesPlaced

SubmittedMeansSent == [][SubmittedStep]_vars


(***************************************************************************)
(* C33: startGame puts the 5 initial candles in the field, and while the   *)
(* round runs a candle leaves the field only by the events of the round:   *)
(* after it was blown, or once it has expired; no timeout set in an        *)
(* earlier round removes a candle of the running round.                    *)
(***************************************************************************)
InField(candle, field) == \E p \in 1..Len(field) : field[p].id = candle.id

FieldStep ==
    /\ (client.status # "running" /\ client'.status = "running") =>
          /\ Len(client'.candles) = 5
          /\ \A p \in 1..5 : client'.candles[p].state = "alive"
    /\ (client.status = "running" /\ client'.status = "running") =>
          \A p \in 1..Len(client.candles) :
             \/ InField(client.candles[p], client'.candles)
             \/ client.candles[p].state = "blown"
             \/ Age(client.candles[p]) >= 2600

FieldOfRound == [][FieldStep]_vars


(***************************************************************************)
(* C35: one page never has two POSTs awaiting their answers; once a POST   *)
(* has succeeded in a round, no POST is pending and none is sent until     *)
(* startGame or resetGame, so the successful answers of a round are at     *)
(* most one.                                                               *)
(***************************************************************************)
PendingPosts == { i \in 1..Len(client.flights) : client.flights[i].method = "POST" }

OnePostPending ==
    /\ Cardinality(PendingPosts) <= 1
    /\ client.isSubmitting <=> PendingPosts # {}
    /\ client.hasSubmittedRound => PendingPosts = {}

OnePostStep ==
    /\ PostSent => ~client'.hasSubmittedRound
    /\ (client.hasSubmittedRound /\ client'.hasSubmittedRound) =>
          client'.autoPosts <= client.autoPosts

OnePostAtATime == []OnePostPending /\ [][OnePostStep]_vars

\* the automatic POST of the round has succeeded and nothing else was sent
OnePostAtATimeWitness ==
    /\ client.status = "ended"
    /\ client.hasSubmittedRound
    /\ client.message = "Score saved automatically!"
    /\ client.autoPosts = 1
    /\ client.flights = <<>>
    /\ client.highScores # <<>>


(***************************************************************************)
(* C34: the body of every POST the page sends has candles in 1..29, timeMs *)
(* in 0..15000 and a cleaned name that is not empty and has at most 40     *)
(* characters, so that none of the handler's checks of the name, the       *)
(* candles and the time rejects it.                                        *)
(***************************************************************************)
BodyStep ==
    PostSent =>
       LET body == SentPost.body IN
       /\ SentPost.method = "POST"
       /\ body.candles \in 1..TARGET_CANDLES
       /\ body.timeMs \in 0..(GAME_SECONDS * 1000)
       /\ body.name = cleanDisplayName(client'.playerName)
       /\ body.name # <<>>
       /\ Len(body.name) <= 40
       /\ ValidationError(FALSE, cleanName(JStr(body.name)),
                          Number(JNum(Int_(body.candles))),
                          Number(JNum(Int_(body.timeMs))), <<>>) = ""

Syncing == { r \in Reqs : req[r].pc = "sync" }

NoSyncAfterSuccess ==
    hasSynced => \A r \in Reqs : req'[r].pc = "sync" => req[r].pc = "sync"

SingleSync == [](Cardinality(Syncing) <= 1) /\ [][NoSyncAfterSuccess]_vars


(***************************************************************************)
(* C37: the name that cleanName (and cleanDisplayName) produces is in      *)
(* normal form for every input: it neither starts nor ends with white      *)
(* space, has no two white-space characters in a row and at most 40        *)
(* characters; cleaning it again leaves it as it is.                       *)
(***************************************************************************)
InNormalForm(name) ==
    /\ Len(name) <= 40
    /\ name # <<>> => name[1] \notin WhiteSpace /\ name[Len(name)] \notin WhiteSpace
    /\ \A p \in 1..(Len(name) - 1) :
          ~(name[p] \in WhiteSpace /\ name[p + 1] \in WhiteSpace)

CleanNameNormalForm ==
    probe.pc = "done" => InNormalForm(probe.name) /\ probe.again = probe.name


(***************************************************************************)
(* C31: when the email-gating page sends a POST without an email, the      *)
(* email-gating handler does not answer it with "Email required for top 10 *)
(* scores.", the list of the page being empty or a list the handler has    *)
(* returned, however stale.                                                *)
(***************************************************************************)
NoEmailRejection ==
    (req[PageSlot].method = "POST" /\ req[PageSlot].email = <<>>) =>
        req[PageSlot].error # "Email required for top 10 scores."

\* the handler has admitted a POST of the page without an email against a
\* top list that is no longer the list of the page
NoEmailRejectionWitness ==
    /\ req[PageSlot].method = "POST"
    /\ req[PageSlot].email = <<>>
    /\ req[PageSlot].pc = "create"
    /\ client.highScores # <<>>
    /\ serializeAll(req[PageSlot].currentTop) # client.highScores
    /\ ~qualifiesForTopTen(client)

====
